---- MODULE Spec2Model ----
(***************************************************************************)
(* A model of the neohubapi request engine (NeoHub._send and               *)
(* NeoHub._send_message, src/neohubapi/neohub.py) and of the facade        *)
(* operations built on it.  One behaviour is one facade call issued on one *)
(* NeoHub instance against a hub whose answers are chosen freely.          *)
(*                                                                         *)
(* Time is counted in ticks.  request_timeout is a number of ticks, the    *)
(* inter-attempt sleep is request_timeout / 2.                             *)
(***************************************************************************)
EXTENDS Integers, Sequences, FiniteSets, TLC

(***************************************************************************)
(* Bounds of the model.                                                    *)
(***************************************************************************)
\* Largest request_attempts a client is constructed with.
MaxAttempts == 3
\* Longest time (ticks) the operating system lets a connection attempt take.
MaxConnectTime == 3
\* Largest request_attempts of a client whose facade operations are followed.
MaxFacadeAttempts == 2
\* Number of tasks that read target_temperature_step of one client, and the
\* number of reads they make together.
MaxTasks == 2
MaxAccesses == 3

\* The time (ticks) a connection attempt takes: none, or all the operating
\* system allows.
ConnectTimes == {0, MaxConnectTime}

\* request_timeout values (ticks) a client is constructed with.
RequestTimeouts == {2, 4}

\* The time (ticks) a reply that beats the deadline takes: none, or all but
\* the last tick of the deadline.
ReplyTimes(timeout) == {0, timeout - 1}

\* The link to the hub: on a "slow" link connecting and answering take the
\* times above; on a "fast" one every step that does not run into the
\* deadline takes no time.
ConnectDelays(l) == IF l = "slow" THEN ConnectTimes ELSE {0}
ReplyDelays(l, timeout) == IF l = "slow" THEN ReplyTimes(timeout) ELSE {0}

(***************************************************************************)
(* Bytes on the wire.  A stream is a sequence of chunks: a chunk is NUL,   *)
(* CR, the byte 0xFF, or the text of a JSON document (or of a malformed    *)
(* one).                                                                   *)
(***************************************************************************)
NUL == "NUL"
CR == "CR"
XFF == "0xFF"

TextOk        == "{\"message\": \"ok\"}"
TextError     == "{\"message\": \"error\"}"
TextInvalid   == "{\"message\": not valid json\"}"
TextArray     == "[]"
TextFw2026    == "{\"firmware version\": \"2026\"}"
TextFw2027    == "{\"firmware version\": \"2027\"}"
TextRestart   == "{\"Restarting\": 1}"

\* Python values: None, bool, dict, list, SimpleNamespace.  A mapping is a
\* set of <<key, JSON literal>> pairs.
PyValue(t, d, b) == [type |-> t, dict |-> d, flag |-> b]
PyNone == PyValue("NoneType", {}, FALSE)
PyTrue == PyValue("bool", {}, TRUE)
PyFalse == PyValue("bool", {}, FALSE)
PyDict(d) == PyValue("dict", d, FALSE)
PyList == PyValue("list", {}, FALSE)
SimpleNamespace(d) == PyValue("SimpleNamespace", d, FALSE)
DecodeFailure == PyValue("JSONDecodeError", {}, FALSE)

\* The JSON documents of the model: the members of each object text.
JsonObjects ==
    [t \in {TextOk, TextError, TextFw2026, TextFw2027, TextRestart} |->
        CASE t = TextOk      -> {<<"message", "\"ok\"">>}
          [] t = TextError   -> {<<"message", "\"error\"">>}
          [] t = TextFw2026  -> {<<"firmware version", "\"2026\"">>}
          [] t = TextFw2027  -> {<<"firmware version", "\"2027\"">>}
          [] t = TextRestart -> {<<"Restarting", "1">>}]


\* The texts that are JSON documents.
JsonTexts == DOMAIN JsonObjects \cup {TextArray}

\* Further documents, each an answer to the request of one verb.
TextFw2134    == "{\"firmware version\": \"2134\"}"
TextFw2135    == "{\"firmware version\": \"2135\"}"

ReplyObjects ==
    [t \in {TextFw2134, TextFw2135} |->
        CASE t = TextFw2134  -> {<<"firmware version", "\"2134\"">>}
          [] t = TextFw2135  -> {<<"firmware version", "\"2135\"">>}]

\* The documents {"result": r} with which the hub acknowledges a command,
\* by the verb of the command.
VerbResult ==
    [verb \in {"LOCK", "UNLOCK", "FROST_ON", "FROST_OFF", "SET_TEMP", "SET_DIFF",
               "TIMER_ON", "TIMER_OFF", "TIMER_HOLD_ON", "TIMER_HOLD_OFF",
               "SET_CHANNEL", "DST_ON", "DST_OFF", "SET_FORMAT",
               "SET_DATE", "SET_TIME", "IDENTIFY_DEV", "ZONE_TITLE",
               "REMOVE_ZONE"} |->
        CASE verb = "SET_CHANNEL"    -> "Trying to change channel"
          [] verb = "SET_DATE"       -> "Date is set"
          [] verb = "SET_TIME"       -> "time set"
          [] verb = "IDENTIFY_DEV"   -> "Device identifying"
          [] verb = "ZONE_TITLE"     -> "zone renamed"
          [] verb = "REMOVE_ZONE"    -> "zone removed"
          [] verb = "DST_ON"         -> "dst on"
          [] verb = "DST_OFF"        -> "dst off"
          [] verb = "SET_FORMAT"     -> "Format was set"
          [] verb = "LOCK"           -> "locked"
          [] verb = "UNLOCK"         -> "unlocked"
          [] verb = "FROST_ON"       -> "frost on"
          [] verb = "FROST_OFF"      -> "frost off"
          [] verb = "SET_TEMP"       -> "temperature was set"
          [] verb = "SET_DIFF"       -> "switching differential was set"
          [] verb = "TIMER_ON"       -> "timers on"
          [] verb = "TIMER_OFF"      -> "timers off"
          [] verb = "TIMER_HOLD_ON"  -> "timer hold on"
          [] verb = "TIMER_HOLD_OFF" -> "timer hold off"]
Results == {VerbResult[verb] : verb \in DOMAIN VerbResult}
ResultText(r) == "{\"result\": \"" \o r \o "\"}"
ResultObject(r) == {<<"result", "\"" \o r \o "\"">>}
ResultObjects ==
    [t \in {ResultText(r) : r \in Results} |->
        ResultObject(CHOOSE r \in Results : ResultText(r) = t)]

\* GET_SYSTEM replies: the literals of FORMAT and ALT_TIMER_FORMAT, or one
\* of the two fields without the other.
SystemFormats ==
    {<<"1", "4">>, <<"0", "2">>, <<"3", "1">>, <<"1", "5">>, <<"null", "1">>,
     <<"2", "null">>, <<"null", "3">>}
SystemText(f, a) ==
    "{\"FORMAT\": " \o f \o ", \"ALT_TIMER_FORMAT\": " \o a \o "}"
TextFormatOnly    == "{\"FORMAT\": 3}"
TextAltFormatOnly == "{\"ALT_TIMER_FORMAT\": 3}"
TextFormatNoAlt   == "{\"FORMAT\": 1}"
SystemTexts ==
    {SystemText(p[1], p[2]) : p \in SystemFormats}
        \cup {TextFormatOnly, TextAltFormatOnly, TextFormatNoAlt}
SystemObjects ==
    [t \in SystemTexts |->
        CASE t = TextFormatOnly    -> {<<"FORMAT", "3">>}
          [] t = TextAltFormatOnly -> {<<"ALT_TIMER_FORMAT", "3">>}
          [] t = TextFormatNoAlt   -> {<<"FORMAT", "1">>}
          [] OTHER ->
                LET p == CHOOSE p \in SystemFormats : SystemText(p[1], p[2]) = t
                IN  {<<"FORMAT", p[1]>>, <<"ALT_TIMER_FORMAT", p[2]>>}]

\* GET_LIVE_DATA replies.  A device of a reply has a zone name, a THERMOSTAT
\* and a TIMECLOCK flag (true, false or absent) and, when it is complete,
\* the members the NeoStat constructor converts.
Flags == {"true", "false", "absent"}
Dev(name, thermostat, timeclock, complete) ==
    [name |-> name, thermostat |-> thermostat, timeclock |-> timeclock,
     complete |-> complete]
StatMembers ==
    {<<"PIN_NUMBER", "\"0000\"">>, <<"PREHEAT_ACTIVE", "0">>,
     <<"HOLD_TIME", "\"0:00\"">>, <<"DATE", "\"monday\"">>,
     <<"SWITCH_DELAY_LEFT", "\"0:00\"">>, <<"TIME", "\"12:34\"">>}
StatText ==
    ", \"PIN_NUMBER\": \"0000\", \"PREHEAT_ACTIVE\": 0, \"HOLD_TIME\": \"0:00\""
        \o ", \"DATE\": \"monday\", \"SWITCH_DELAY_LEFT\": \"0:00\""
        \o ", \"TIME\": \"12:34\""
ZoneMembers ==
    {<<"FLOOR_LIMIT", "28">>, <<"SET_TEMP", "\"21.5\"">>,
     <<"ACTUAL_TEMP", "\"20.1\"">>, <<"AWAY", "false">>}
ZoneText ==
    ", \"FLOOR_LIMIT\": 28, \"SET_TEMP\": \"21.5\", \"ACTUAL_TEMP\": \"20.1\""
        \o ", \"AWAY\": false"
DeviceText(d) ==
    "{\"ZONE_NAME\": \"" \o d.name \o "\""
        \o (IF d.thermostat = "absent" THEN ""
            ELSE ", \"THERMOSTAT\": " \o d.thermostat)
        \o (IF d.timeclock = "absent" THEN ""
            ELSE ", \"TIMECLOCK\": " \o d.timeclock)
        \o (IF d.complete THEN StatText \o ZoneText ELSE "") \o "}"
DeviceObject(d) ==
    SimpleNamespace(
        {<<"ZONE_NAME", "\"" \o d.name \o "\"">>}
            \cup (IF d.thermostat = "absent" THEN {}
                  ELSE {<<"THERMOSTAT", d.thermostat>>})
            \cup (IF d.timeclock = "absent" THEN {}
                  ELSE {<<"TIMECLOCK", d.timeclock>>})
            \cup (IF d.complete THEN StatMembers \cup ZoneMembers ELSE {}))
RECURSIVE ArrayItems(_)
ArrayItems(ds) ==
    IF ds = <<>> THEN ""
    ELSE DeviceText(Head(ds)) \o (IF Len(ds) = 1 THEN "" ELSE ", ")
            \o ArrayItems(Tail(ds))
ArrayText(ds) == "[" \o ArrayItems(ds) \o "]"
LiveDevices ==
    {<<>>,
     <<Dev("Kitchen", "true", "absent", TRUE), Dev("Timer", "absent", "true", TRUE),
       Dev("Sensor", "absent", "absent", FALSE), Dev("Combo", "true", "true", TRUE),
       Dev("Off", "false", "false", TRUE), Dev("Lounge", "true", "false", TRUE)>>,
     <<Dev("Lounge", "false", "true", TRUE), Dev("Kitchen", "true", "absent", TRUE)>>,
     <<Dev("Kitchen", "true", "absent", TRUE), Dev("Bare", "absent", "true", FALSE)>>}
LiveText(ds) == "{\"HUB_TIME\": 5, \"devices\": " \o ArrayText(ds) \o "}"
TextNoDevices == "{\"HUB_TIME\": 5}"
LiveTexts == {LiveText(ds) : ds \in LiveDevices} \cup {TextNoDevices}
LiveObjects ==
    [t \in LiveTexts |->
        IF t = TextNoDevices THEN {<<"HUB_TIME", "5">>}
        ELSE LET ds == CHOOSE ds \in LiveDevices : LiveText(ds) = t
             IN  {<<"HUB_TIME", "5">>, <<"devices", ArrayText(ds)>>}]
\* The list of namespaces an array literal of devices decodes to.
Arrays ==
    [t \in {ArrayText(ds) : ds \in LiveDevices} |->
        LET ds == CHOOSE ds \in LiveDevices : ArrayText(ds) = t
        IN  [i \in 1..Len(ds) |-> DeviceObject(ds[i])]]

\* GET_HOLIDAY replies: the literals of start and end (null, the empty
\* string, or a date as the hub writes it, here with and without white
\* space around it) and the list of the devices on holiday.
DateFri == "\"Fri Jul 10 17:00:00 2026\""
DateSat == "\" Sat Jul 18 09:30:00 2026 \""
HolidayLiterals == {"null", "\"\"", DateFri, DateSat}
HolidayText(start, end) ==
    "{\"start\": " \o start \o ", \"end\": " \o end \o ", \"ids\": []}"
HolidayTexts ==
    {HolidayText(start, end) : start \in HolidayLiterals, end \in HolidayLiterals}
HolidayObjects ==
    [t \in HolidayTexts |->
        LET p == CHOOSE p \in HolidayLiterals \X HolidayLiterals :
                    HolidayText(p[1], p[2]) = t
        IN  {<<"start", p[1]>>, <<"end", p[2]>>, <<"ids", "[]">>}]

\* The documents a hub answers the request of the given verb with when the
\* facade operation o sent it, besides those it answers any request with:
\* the cases the code of o tells apart.
ReplyTexts(o, verb) ==
    CASE o = "target_temperature_step" /\ verb = "FIRMWARE"
            -> {TextFw2134, TextFw2135}
      [] verb \in DOMAIN VerbResult -> {ResultText(VerbResult[verb])}
      [] verb = "GET_SYSTEM" -> SystemTexts
      [] verb = "GET_LIVE_DATA" -> LiveTexts
      [] verb = "GET_HOLIDAY" -> HolidayTexts
      [] OTHER -> {}

\* Every JSON object of the model.
Objects ==
    JsonObjects @@ ReplyObjects @@ ResultObjects @@ SystemObjects @@ LiveObjects
        @@ HolidayObjects

(***************************************************************************)
(* Pure functions of the transport and of the decoder.                     *)
(***************************************************************************)
\* Index of the first chunk of s equal to sep, 0 when there is none.
RECURSIVE FindFrom(_, _, _)
FindFrom(s, sep, i) ==
    IF i > Len(s) THEN 0
    ELSE IF s[i] = sep THEN i
    ELSE FindFrom(s, sep, i + 1)

\* StreamReader.read(-1) in place of readuntil: every byte the hub sent.
readuntil_WholeStream(stream, sep) == stream

\* StreamReader.readuntil(b'\0'): the bytes up to and including the first
\* separator.  Defined when the stream holds a separator.
readuntil(stream, sep) == SubSeq(stream, 1, FindFrom(stream, sep, 1))

\* bytes.strip(b'\0'): every leading and every trailing NUL is removed.
RECURSIVE lstrip(_, _)
lstrip(s, c) == IF s # <<>> /\ Head(s) = c THEN lstrip(Tail(s), c) ELSE s
RECURSIVE rstrip(_, _)
rstrip(s, c) ==
    IF s # <<>> /\ s[Len(s)] = c THEN rstrip(SubSeq(s, 1, Len(s) - 1), c) ELSE s
strip(s, c) == rstrip(lstrip(s, c), c)

\* bytes.decode('utf-8') fails on a byte that is no UTF-8.
IsUtf8(s) == \A i \in 1..Len(s) : s[i] # XFF

\* json.loads(text, object_hook=lambda d: SimpleNamespace(**d)): white space
\* around the document is skipped; every JSON object becomes a
\* SimpleNamespace; anything but exactly one document is a JSONDecodeError.
object_hook(d) == SimpleNamespace(d)
json_loads(s) ==
    LET body == strip(s, CR)
    IN  IF Len(body) # 1 THEN DecodeFailure
        ELSE IF body[1] \in DOMAIN Objects THEN object_hook(Objects[body[1]])
        ELSE IF body[1] = TextArray THEN PyList
        ELSE DecodeFailure

\* json.dumps(message) + "\0\r" as written to the socket.
EncodedMessage(m) == [doc |-> m, tail |-> <<NUL, CR>>]

(***************************************************************************)
(* What the hub does on one connection: the bytes it sends, and what it    *)
(* does after them (closes, keeps the connection open in silence, resets). *)
(***************************************************************************)
HubFrames ==
    {<<t, NUL>> : t \in JsonTexts \cup {TextInvalid, XFF}}
        \cup {<<NUL>>, <<TextOk, NUL, CR>>, <<TextOk, NUL, TextError, NUL>>}
HubAnswers ==
    [bytes : HubFrames, then : {"eof"}]
        \cup [bytes : {<<>>, <<TextOk>>}, then : {"eof", "hang", "reset"}]

\* What the hub does on a connection of one of two calls that are followed
\* together: it answers with a document, a different one or a malformed
\* one, closes the connection without an answer, or stays silent.
TwoCallAnswers ==
    [bytes : {<<TextOk, NUL>>, <<TextError, NUL>>, <<TextInvalid, NUL>>},
     then : {"eof"}]
        \cup [bytes : {<<>>}, then : {"eof", "hang"}]

\* The answers of the hub to the request m of the facade operation o.
AnswersTo(o, m) ==
    IF o = "twice" THEN TwoCallAnswers
    ELSE HubAnswers
            \cup [bytes : {<<t, NUL>> : t \in ReplyTexts(o, m.verb)}, then : {"eof"}]

(***************************************************************************)
(* State.                                                                  *)
(***************************************************************************)
VARIABLES
    link,               \* the link to NeoHub._host: "slow" or "fast"
    request_timeout,    \* NeoHub._request_timeout (ticks)
    request_attempts,   \* NeoHub._request_attempts
    op,                 \* the facade operation in progress
    op_pc,              \* its position
    op_result,          \* what it returned or raised
    firmware_version,   \* the local firmware_version of the operation
    returns,            \* reset(): what its _send calls gave it
    args,               \* the arguments of the facade operation
    cache,              \* the cached target_temperature_step, None when unset
    lock,               \* the task that holds the lock of the cached property
    access,             \* where each task is in its read of the property, and
                        \* what its last read gave it or that it raised
    accesses,           \* reads of the property begun so far
    parked,             \* the frame of a second _send call that is suspended
                        \* while the current one runs
    message,            \* _send: message
    expected_reply,     \* _send: expected_reply
    attempt,            \* _send: attempt
    last_exception,     \* _send: last_exception
    writer,             \* _send: writer (0 unbound, else an index of conns)
    pc,                 \* _send: the await it is suspended at
    data,               \* _send_message: data
    used,               \* time spent under the current wait_for
    result,             \* what _send returned or raised
    calls,              \* every _send call made so far
    frames,             \* the verbs of the requests the hub has received so far
    leaked,             \* connections earlier _send calls left open
    conns,              \* the connections the current _send call opened:
                        \* "open" or "closed"
    inputs,             \* the requests the hub received from the current call
    log,                \* how the attempts of the current call ended
    now,                \* time since the current _send call began
    sleeps,             \* inter-attempt sleeps of the current _send call
    slept               \* time the current _send call spent in those sleeps

config == <<link, request_timeout, request_attempts>>
cached == <<cache, lock, access, accesses>>
facade == <<op, op_pc, op_result, firmware_version, returns, args, cached,
            parked>>
locals == <<message, expected_reply, attempt, last_exception, writer, pc, data,
            used, result>>
history == <<calls, frames, leaked, conns, inputs, log, now, sleeps, slept>>
vars == <<config, facade, locals, history>>

\* Exceptions carry their type, the type of the exception they wrap (their
\* own type when they wrap none) and the attempt that raised them.
Exc(t, arg, a) == [type |-> t, attempt |-> a, arg |-> arg]
NoException == Exc("None", "None", 0)

\* What a call ended with.
Pending == [kind |-> "pending", value |-> PyNone, exc |-> NoException]
Returned(v) == [kind |-> "return", value |-> v, exc |-> NoException]
Raised(e) == [kind |-> "raise", value |-> PyNone, exc |-> e]

\* The messages and expected replies the model issues.
Message(verb, payload) == [verb |-> verb, payload |-> payload]
MsgTest == Message("test", <<>>)
MsgFirmware == Message("FIRMWARE", <<0>>)
MsgReset == Message("RESET", <<0>>)
ReplyOk == PyDict({<<"message", "\"ok\"">>})
ReplyNotOk == PyDict({<<"message", "\"not ok\"">>})
ReplyRestarting == PyDict({<<"Restarting", "1">>})

\* The frame of a _send call: its locals, and what is recorded of it.
Frame(m, e, a, l, w, p, d, u, r, cs, is, lg, t, n, sl) ==
    [message |-> m, expected_reply |-> e, attempt |-> a, last_exception |-> l,
     writer |-> w, pc |-> p, data |-> d, used |-> u, result |-> r,
     conns |-> cs, inputs |-> is, log |-> lg, now |-> t, sleeps |-> n,
     slept |-> sl]
NoFrame ==
    Frame(MsgTest, PyNone, 0, NoException, 0, "idle", <<>>, 0, Pending,
          <<>>, <<>>, <<>>, 0, 0, 0)

\* The tasks that use one client, and a task before its first read.
Tasks == 1..MaxTasks
Got(r) == [kind |-> r.kind, value |-> r.value]
NoAccess == [pc |-> "idle", got |-> Got(Pending)]

\* The state of a client and of its callers after construction.
Constructed ==
    /\ op = "none" /\ op_pc = "idle" /\ op_result = Pending
    /\ firmware_version = 0 /\ returns = <<>>
    /\ args = <<>> /\ cache = PyNone /\ lock = 0
    /\ access = [t \in Tasks |-> NoAccess] /\ accesses = 0
    /\ parked = NoFrame
    /\ message = MsgTest /\ expected_reply = PyNone
    /\ attempt = 0 /\ last_exception = NoException /\ writer = 0
    /\ pc = "idle" /\ data = <<>> /\ used = 0 /\ result = Pending
    /\ calls = <<>> /\ frames = {} /\ leaked = 0
    /\ conns = <<>> /\ inputs = <<>>
    /\ log = <<>> /\ now = 0 /\ sleeps = 0 /\ slept = 0

Init ==
    /\ link = "slow"
    /\ request_timeout \in RequestTimeouts
    /\ request_attempts \in 0..MaxAttempts
    /\ Constructed

(***************************************************************************)
(* NeoHub._send, src/neohubapi/neohub.py lines 52-85.                      *)
(***************************************************************************)
\* Line 80 with the bound off by one: no sleep before the last attempt.
SleepBeforeRetry_TooFew(a, n) == n > 1 /\ a < n - 1

\* Line 80: whether to sleep before the next attempt.
SleepBeforeRetry(a, n) == n > 1 /\ a < n

\* Line 54 with the range one too long.
MoreAttempts_OneTooMany(a, n) == a <= n

\* Line 54: whether the for loop has another attempt after attempt a.
MoreAttempts(a, n) == a < n

\* Lines 83-85 without the raise of line 84.
AfterLoop_AlwaysFalse(expected, last) == Returned(PyFalse)

\* Lines 83-85 with the raise of line 84 not guarded by expected_reply.
AfterLoop_AlwaysRaise(expected, last) ==
    IF last # NoException THEN Raised(last) ELSE Returned(PyFalse)

\* Lines 83-85: the end of _send once the loop is exhausted.
AfterLoop(expected, last) ==
    IF expected = PyNone /\ last # NoException THEN Raised(last)
    ELSE Returned(PyFalse)

\* Lines 63-67 without the return of line 64.
Classify_NoEarlyReturn(reply, expected) ==
    IF reply.type # "SimpleNamespace" THEN "AttributeError"
    ELSE IF expected # PyNone /\ reply.dict = expected.dict THEN "match"
    ELSE "mismatch"

\* Lines 63-67 with line 65 comparing the reply itself, not its __dict__.
Classify_CompareNamespace(reply, expected) ==
    IF expected = PyNone THEN "reply"
    ELSE IF reply = expected THEN "match"
    ELSE "mismatch"

\* Lines 63-67: what a decoded reply leads to.
Classify(reply, expected) ==
    IF expected = PyNone THEN "reply"
    ELSE IF reply.type # "SimpleNamespace" THEN "AttributeError"
    ELSE IF reply.dict = expected.dict THEN "match"
    ELSE "mismatch"

\* Lines 68-78 with line 68 catching socket.gaierror alone.
Handler_GaierrorOnly(t) ==
    CASE t = "gaierror" -> "NeoHubConnectionError"
      [] t \in {"asyncio.TimeoutError", "TimeoutError"} -> "TimeoutError"
      [] t = "JSONDecodeError" -> "JSONDecodeError"
      [] OTHER -> "uncaught"

\* Lines 68-78: the except clause that catches an exception of type t, and
\* the type of the exception it records.  "TimeoutError" is the builtin
\* TimeoutError of an interpreter in which asyncio.TimeoutError is that
\* class (the operating system timed the connection attempt out); where the
\* two classes differ the builtin one is an "OSError" like any other.
Handler(t) ==
    CASE t \in {"gaierror", "ConnectionRefusedError"} -> "NeoHubConnectionError"
      [] t \in {"asyncio.TimeoutError", "TimeoutError"} -> "TimeoutError"
      [] t = "JSONDecodeError" -> "JSONDecodeError"
      [] OTHER -> "uncaught"

\* Lines 79-85 after attempt `attempt` ended without a result; last is the
\* value of last_exception by then.
RetryLogic(last) ==
    /\ last_exception' = last
    /\ IF SleepBeforeRetry(attempt, request_attempts)
       THEN pc' = "sleep" /\ UNCHANGED <<attempt, result>>
       ELSE IF MoreAttempts(attempt, request_attempts)
       THEN pc' = "connect" /\ attempt' = attempt + 1 /\ UNCHANGED result
       ELSE pc' = "done" /\ result' = AfterLoop(expected_reply, last)
                           /\ UNCHANGED attempt

\* An exception of type t leaves the try block of the current attempt; cs
\* is the state of the connections by then.
Raise(t, cs) ==
    LET h == Handler(t) IN
    IF h = "uncaught"
    THEN /\ pc' = "done" /\ result' = Raised(Exc(t, t, attempt))
         /\ log' = Append(log, t)
         /\ conns' = cs
         /\ UNCHANGED <<attempt, last_exception>>
    ELSE IF h = "TimeoutError" /\ writer = 0
    THEN \* line 74 reads a local that was never assigned
         /\ last_exception' = Exc(h, t, attempt)                \* line 72
         /\ pc' = "done"
         /\ result' = Raised(Exc("UnboundLocalError", "UnboundLocalError", attempt))
         /\ log' = Append(log, "UnboundLocalError")
         /\ conns' = cs
         /\ UNCHANGED attempt
    ELSE /\ conns' = IF h = "TimeoutError"
                     THEN [cs EXCEPT ![writer] = "closed"]   \* line 75
                     ELSE cs
         /\ log' = Append(log, h)
         /\ RetryLogic(Exc(h, t, attempt))

\* Line 52-54: _send is entered.
StartSend(m, expected) ==
    /\ message' = m /\ expected_reply' = expected
    /\ last_exception' = NoException
    /\ writer' = 0 /\ data' = <<>> /\ used' = 0
    /\ calls' = Append(calls, [message |-> m, expected_reply |-> expected])
    /\ leaked' = leaked + Cardinality({i \in 1..Len(conns) : conns[i] = "open"})
    /\ conns' = <<>> /\ inputs' = <<>>
    /\ log' = <<>> /\ now' = 0 /\ sleeps' = 0 /\ slept' = 0
    /\ IF request_attempts >= 1
       THEN attempt' = 1 /\ pc' = "connect" /\ result' = Pending
       ELSE attempt' = 0 /\ pc' = "done"
            /\ result' = AfterLoop(expected, NoException)
    /\ UNCHANGED frames

\* Line 56: asyncio.open_connection succeeds; wait_for starts
\* _send_message, which writes the message (line 41) and awaits drain.
OpenConnection ==
    /\ pc = "connect"
    /\ \E d \in ConnectDelays(link) : now' = now + d
    /\ conns' = Append(conns, "open")
    /\ writer' = Len(conns) + 1
    /\ pc' = "drain" /\ used' = 0 /\ data' = <<>>
    /\ UNCHANGED <<config, facade, message, expected_reply, attempt,
                   last_exception, result, inputs, calls, frames, leaked, log,
                   sleeps, slept>>

\* Line 56: asyncio.open_connection raises.  "OSError" stands for every
\* OSError that line 68 does not name: an unreachable host or network, and
\* the aggregated error asyncio raises when several addresses of one host
\* each fail.
ConnectErrors == {"gaierror", "ConnectionRefusedError", "OSError", "TimeoutError"}
ConnectFails ==
    /\ pc = "connect"
    /\ \E d \in ConnectDelays(link) : now' = now + d
    /\ \E t \in ConnectErrors : Raise(t, conns)
    /\ UNCHANGED <<config, facade, message, expected_reply, writer, data, used,
                   inputs, calls, frames, leaked, sleeps, slept>>

\* Line 42: drain returns; the hub has the request.
Drain ==
    /\ pc = "drain"
    /\ inputs' = Append(inputs, EncodedMessage(message))
    /\ frames' = frames \cup {message.verb}
    /\ pc' = "readuntil"
    /\ UNCHANGED <<config, facade, message, expected_reply, attempt,
                   last_exception, writer, data, used, result, conns, calls,
                   leaked, log, now, sleeps, slept>>

\* Lines 44-47: readuntil returns the frame; the writer is closed and
\* wait_closed is awaited.
ReadUntil ==
    /\ pc = "readuntil"
    /\ \E d \in ReplyDelays(link, request_timeout) :
          /\ used' = used + d /\ now' = now + d
    /\ \E h \in AnswersTo(op, message) :
          /\ FindFrom(h.bytes, NUL, 1) # 0
          /\ data' = readuntil(h.bytes, NUL)
    /\ conns' = [conns EXCEPT ![writer] = "closed"]
    /\ pc' = "wait_closed"
    /\ UNCHANGED <<config, facade, message, expected_reply, attempt,
                   last_exception, writer, result, inputs, calls, frames, leaked,
                   log, sleeps, slept>>

\* Line 44: the hub closes the connection before a NUL; readuntil raises
\* IncompleteReadError, which no clause of _send catches.
ReadIncomplete ==
    /\ pc = "readuntil"
    /\ \E d \in ReplyDelays(link, request_timeout) :
          /\ used' = used + d /\ now' = now + d
    /\ \E h \in AnswersTo(op, message) :
          /\ FindFrom(h.bytes, NUL, 1) = 0 /\ h.then = "eof"
          /\ data' = h.bytes
    /\ Raise("IncompleteReadError", conns)
    /\ UNCHANGED <<config, facade, message, expected_reply, writer,
                   inputs, calls, frames, leaked, sleeps, slept>>

\* Lines 42, 44: the hub resets the connection; the transport closes the
\* socket and drain or readuntil raises ConnectionResetError.
ConnectionReset ==
    /\ pc \in {"drain", "readuntil"}
    /\ Raise("ConnectionResetError", [conns EXCEPT ![writer] = "closed"])
    /\ UNCHANGED <<config, facade, message, expected_reply, writer, data, used,
                   inputs, calls, frames, leaked, now, sleeps, slept>>

\* Lines 57-58: the deadline of wait_for expires while _send_message is
\* suspended; the task is cancelled and asyncio.TimeoutError is raised.
WaitForTimeout ==
    /\ pc \in {"drain", "readuntil", "wait_closed"}
    /\ now' = now + (request_timeout - used)
    /\ used' = request_timeout
    /\ Raise("asyncio.TimeoutError", conns)
    /\ UNCHANGED <<config, facade, message, expected_reply, writer, data,
                   inputs, calls, frames, leaked, sleeps, slept>>

\* Lines 47-67: wait_closed returns, _send_message strips and returns the
\* data, _send decodes it and decides.
WaitClosed ==
    /\ pc = "wait_closed"
    /\ LET stripped == strip(data, NUL)
           reply == json_loads(stripped)
           class == Classify(reply, expected_reply)
       IN  IF ~IsUtf8(stripped) THEN Raise("UnicodeDecodeError", conns)
           ELSE IF reply = DecodeFailure THEN Raise("JSONDecodeError", conns)
           ELSE IF class = "AttributeError" THEN Raise("AttributeError", conns)
           ELSE IF class = "mismatch"
           THEN /\ log' = Append(log, "mismatch")
                /\ RetryLogic(last_exception)
                /\ UNCHANGED conns
           ELSE /\ log' = Append(log, class)
                /\ result' = Returned(IF class = "reply" THEN reply ELSE PyTrue)
                /\ pc' = "done"
                /\ UNCHANGED <<attempt, last_exception, conns>>
    /\ UNCHANGED <<config, facade, message, expected_reply, writer, data, used,
                   inputs, calls, frames, leaked, now, sleeps, slept>>

\* Line 81: asyncio.sleep(request_timeout / 2), then the next attempt.
Sleep ==
    /\ pc = "sleep"
    /\ now' = now + request_timeout \div 2
    /\ slept' = slept + request_timeout \div 2
    /\ sleeps' = sleeps + 1
    /\ attempt' = attempt + 1
    /\ pc' = "connect"
    /\ UNCHANGED <<config, facade, message, expected_reply, last_exception,
                   writer, data, used, result, conns, inputs, calls, frames, leaked,
                   log>>

(***************************************************************************)
(* Facade operations.                                                      *)
(***************************************************************************)
\* A caller awaits _send directly, as the tests do.
ExpectedReplies == {PyNone, ReplyOk, ReplyNotOk}
CallSend ==
    /\ op = "none"
    /\ op' = "send" /\ op_pc' = "send"
    /\ \E e \in ExpectedReplies : StartSend(MsgTest, e)
    /\ UNCHANGED <<config, op_result, firmware_version, returns, args, cached, parked>>

\* getattr and int as NeoHub.firmware uses them (lines 94-96).
hasattr(v, k) == v.type = "SimpleNamespace" /\ \E p \in v.dict : p[1] = k
getattr(v, k) == (CHOOSE p \in v.dict : p[1] = k)[2]
IntLiterals ==
    {<<"\"2026\"", 2026>>, <<"\"2027\"", 2027>>, <<"\"2134\"", 2134>>,
     <<"\"2135\"", 2135>>, <<"1", 1>>}
IsInt(lit) == \E p \in IntLiterals : p[1] = lit
int(lit) == (CHOOSE p \in IntLiterals : p[1] = lit)[2]

\* NeoHub.firmware, lines 87-96, given what _send ended with.
firmware(r) ==
    IF r.kind = "raise" THEN r
    ELSE IF ~hasattr(r.value, "firmware version")
    THEN Raised(Exc("AttributeError", "AttributeError", 0))
    ELSE IF ~IsInt(getattr(r.value, "firmware version"))
    THEN Raised(Exc("ValueError", "ValueError", 0))
    ELSE Returned(PyValue("int", {<<"int", getattr(r.value, "firmware version")>>}, FALSE))
IntValue(v) == int(getattr([v EXCEPT !.type = "SimpleNamespace"], "int"))

\* Line 133 with > for >=.
ResetSupported_OffByOne(version) == version > 2027

\* Line 133: the firmware versions that have the RESET command.
ResetSupported(version) == version >= 2027

\* NeoHub.reset, lines 121-131: firmware() is awaited first.
CallReset ==
    /\ op = "none"
    /\ op' = "reset" /\ op_pc' = "firmware"
    /\ StartSend(MsgFirmware, PyNone)
    /\ UNCHANGED <<config, op_result, firmware_version, returns, args, cached, parked>>

\* NeoHub.reset, lines 131-137: firmware() has ended.
ResetFirmware ==
    /\ op = "reset" /\ op_pc = "firmware" /\ pc = "done"
    /\ returns' = Append(returns, result)
    /\ LET fw == firmware(result) IN
       IF fw.kind = "raise"
       THEN /\ op_pc' = "done" /\ op_result' = fw
            /\ UNCHANGED <<firmware_version, locals, history>>
       ELSE /\ firmware_version' = IntValue(fw.value)
            /\ IF ResetSupported(IntValue(fw.value))
               THEN /\ op_pc' = "reset" /\ UNCHANGED op_result
                    /\ StartSend(MsgReset, ReplyRestarting)
               ELSE /\ op_pc' = "done" /\ op_result' = Returned(PyFalse)
                    /\ UNCHANGED <<locals, history>>
    /\ UNCHANGED <<config, op, args, cached, parked>>

\* NeoHub.reset, lines 134-135: the result of _send is returned.
ResetReturn ==
    /\ op = "reset" /\ op_pc = "reset" /\ pc = "done"
    /\ op_pc' = "done" /\ op_result' = result
    /\ returns' = Append(returns, result)
    /\ UNCHANGED <<config, op, firmware_version, args, cached, parked, locals, history>>

(***************************************************************************)
(* NeoHub.target_temperature_step, lines 109-119.  The property is an      *)
(* async_cached_property of the async_property package: a read returns the *)
(* value cached on the instance when there is one; otherwise it takes the  *)
(* lock of the property, looks for a cached value again, and without one   *)
(* awaits the method, caches what it returns and releases the lock.  An    *)
(* exception of the method leaves the cache unset.                         *)
(***************************************************************************)
PyNumber(lit) == PyValue("number", {<<"number", lit>>}, FALSE)

\* Line 116 with > for >=.
HalfDegreeSteps_OffByOne(version) == version > 2135

\* Line 116: the firmware versions that set targets in half degrees.
HalfDegreeSteps(version) == version >= 2135

\* Lines 115-119, given what firmware() ended with.
target_temperature_step(fw) ==
    IF fw.kind = "raise" THEN fw
    ELSE IF HalfDegreeSteps(IntValue(fw.value)) THEN Returned(PyNumber("0.5"))
    ELSE Returned(PyNumber("1"))

\* The cache check with the test negated: a cached value is never found.
has_cache_value_Never(c) == FALSE

\* async_cached_property: whether the instance holds a cached value.
has_cache_value(c) == c # PyNone

\* load_value with the lock held by task t: the cached value when there is
\* one (the lock is released at once), else the method is awaited, line 115.
LoadValue(t) ==
    IF has_cache_value(cache)
    THEN /\ access' = [access EXCEPT ![t] = [pc |-> "done", got |-> Got(Returned(cache))]]
         /\ lock' = 0
         /\ UNCHANGED <<locals, history>>
    ELSE /\ access' = [access EXCEPT ![t] = [pc |-> "load", got |-> Got(Pending)]]
         /\ lock' = t
         /\ StartSend(MsgFirmware, PyNone)

\* Task t awaits hub.target_temperature_step.
Access(t) ==
    /\ op \in {"none", "target_temperature_step"}
    /\ access[t].pc \in {"idle", "done"}
    /\ accesses < MaxAccesses
    /\ op' = "target_temperature_step" /\ accesses' = accesses + 1
    /\ IF has_cache_value(cache)
       THEN /\ access' = [access EXCEPT ![t] = [pc |-> "done", got |-> Got(Returned(cache))]]
            /\ UNCHANGED <<lock, locals, history>>
       ELSE IF lock # 0
       THEN /\ access' = [access EXCEPT ![t] = [pc |-> "lock", got |-> Got(Pending)]]
            /\ UNCHANGED <<lock, locals, history>>
       ELSE LoadValue(t)
    /\ UNCHANGED <<config, op_pc, op_result, firmware_version, returns, args, cache, parked>>

\* The lock is free and task t, which waited for it, takes it.
AcquireLock(t) ==
    /\ access[t].pc = "lock" /\ lock = 0
    /\ LoadValue(t)
    /\ UNCHANGED <<config, op, op_pc, op_result, firmware_version, returns, args,
                   cache, accesses, parked>>

\* The _send call that ended is over: its frame is gone, and what it left
\* open stays open.
EndSend ==
    /\ message' = MsgTest /\ expected_reply' = PyNone
    /\ attempt' = 0 /\ last_exception' = NoException /\ writer' = 0
    /\ pc' = "idle" /\ data' = <<>> /\ used' = 0 /\ result' = Pending
    /\ leaked' = leaked + Cardinality({i \in 1..Len(conns) : conns[i] = "open"})
    /\ conns' = <<>> /\ inputs' = <<>>
    /\ log' = <<>> /\ now' = 0 /\ sleeps' = 0 /\ slept' = 0
    /\ UNCHANGED <<calls, frames>>

\* Lines 115-119 in task t: firmware() has ended; the value returned is
\* cached and the lock released.
StepLoaded(t) ==
    /\ access[t].pc = "load" /\ lock = t /\ pc = "done"
    /\ LET fw == firmware(result)
           step == target_temperature_step(fw)
       IN  /\ access' = [access EXCEPT ![t] = [pc |-> "done", got |-> Got(step)]]
           /\ cache' = IF step.kind = "return" THEN step.value ELSE cache
           /\ firmware_version' = IF fw.kind = "return" THEN IntValue(fw.value)
                                  ELSE firmware_version
    /\ lock' = 0
    /\ EndSend
    /\ UNCHANGED <<config, op, op_pc, op_result, returns, args, accesses, parked>>

(***************************************************************************)
(* Facade operations that make one _send call.  An operation either ends   *)
(* before any request (it raises or returns) or awaits _send.              *)
(***************************************************************************)
End(r) == [message |-> MsgTest, result |-> r, expected |-> PyNone, do |-> "end"]
Send(m, expected) ==
    [message |-> m, result |-> Pending, expected |-> expected, do |-> "send"]

\* The operation o is called with the arguments a and does what plan says.
Begin(o, a, plan) ==
    /\ op = "none"
    /\ op' = o /\ args' = a
    /\ IF plan.do = "send"
       THEN /\ op_pc' = "send" /\ UNCHANGED op_result
            /\ StartSend(plan.message, plan.expected)
       ELSE /\ op_pc' = "done" /\ op_result' = plan.result
            /\ UNCHANGED <<locals, history>>
    /\ UNCHANGED <<config, firmware_version, returns, cached, parked>>

\* Arguments: an int, a str or None.
Arg(t, i, str) == [type |-> t, int |-> i, str |-> str]
PyInt(i) == Arg("int", i, "")
PyStr(str) == Arg("str", 0, str)
ArgNone == Arg("NoneType", 0, "")

\* raise NeoHubUsageError(...) on catching an exception of type t.
UsageError(t) == Raised(Exc("NeoHubUsageError", t, 0))

\* reply = {"result": r}
Reply(r) == PyDict({<<"result", "\"" \o r \o "\"">>})

\* The devices argument: a list of objects, each with a name or without,
\* or something that cannot be iterated.
Device(n) == [name |-> n, has_name |-> TRUE]
Nameless == [name |-> "", has_name |-> FALSE]
List(items) == [items |-> items, iterable |-> TRUE]
NotIterable == [items |-> <<>>, iterable |-> FALSE]
DeviceArgs ==
    {List(<<>>), List(<<Device("Kitchen"), Device("Lounge")>>),
     List(<<Device("Lounge"), Device("Kitchen")>>),
     List(<<Device("Kitchen"), Nameless>>), NotIterable}

\* [x.name for x in devices]: the exception it raises ("none" when it
\* raises none) and the list it makes.
NamesRaises(devices) ==
    IF ~devices.iterable THEN "TypeError"
    ELSE IF \E i \in 1..Len(devices.items) : ~devices.items[i].has_name
    THEN "AttributeError"
    ELSE "none"
names(devices) == [i \in 1..Len(devices.items) |-> devices.items[i].name]

\* except (TypeError, AttributeError) with TypeError alone.
DevicesCaught_TypeErrorOnly == {"TypeError"}

\* except (TypeError, AttributeError), lines 429, 445, 461, 479, 501, 517,
\* 535, 553.
DevicesCaught == {"TypeError", "AttributeError"}

\* The try statement around the list of names: what the operation does when
\* the list cannot be made, else what it goes on to do with the names.
WithNames(devices, plan) ==
    LET e == NamesRaises(devices) IN
    IF e = "none" THEN plan
    ELSE IF e \in DevicesCaught THEN End(UsageError(e))
    ELSE End(Raised(Exc(e, e, 0)))

\* NeoHub.set_lock, lines 421-425: the digits of the pin.
RECURSIVE pins_loop(_, _, _)
pins_loop(pin, x, pins) ==
    IF x = 4 THEN pins
    ELSE pins_loop(pin \div 10, x + 1, Append(pins, pin % 10))
reverse(s) == [i \in 1..Len(s) |-> s[Len(s) + 1 - i]]

\* Lines 421-425 without pins.reverse().
PinDigits_NotReversed(pin) == pins_loop(pin, 0, <<>>)

PinDigits(pin) == reverse(pins_loop(pin, 0, <<>>))

\* NeoHub.set_lock, lines 408-436.
Pins ==
    {PyInt(-1), PyInt(0), PyInt(7), PyInt(1234), PyInt(9999), PyInt(10000),
     PyStr("1234"), ArgNone}
set_lock(pin, devices) ==
    IF pin.type # "int" THEN End(UsageError("TypeError"))
    ELSE IF pin.int < 0 \/ pin.int > 9999 THEN End(Returned(PyFalse))
    ELSE WithNames(devices,
            Send(Message("LOCK", <<PinDigits(pin.int), names(devices)>>),
                 Reply("locked")))
CallSetLock ==
    \E pin \in Pins, devices \in DeviceArgs :
        Begin("set_lock", [devices |-> devices, pin |-> pin],
              set_lock(pin, devices))

\* NeoHub.unlock, set_frost, set_target_temperature, set_diff,
\* rate_of_change, set_timer, set_timer_hold, lines 438-560.
unlock(devices) ==
    WithNames(devices, Send(Message("UNLOCK", names(devices)), Reply("unlocked")))
set_frost(state, devices) ==
    WithNames(devices,
        Send(Message(IF state THEN "FROST_ON" ELSE "FROST_OFF", names(devices)),
             Reply(IF state THEN "frost on" ELSE "frost off")))
set_target_temperature(temperature, devices) ==
    WithNames(devices,
        Send(Message("SET_TEMP", <<temperature, names(devices)>>),
             Reply("temperature was set")))
set_diff(switching_differential, devices) ==
    WithNames(devices,
        Send(Message("SET_DIFF", <<switching_differential, names(devices)>>),
             Reply("switching differential was set")))
rate_of_change(devices) ==
    WithNames(devices, Send(Message("VIEW_ROC", names(devices)), PyNone))
set_timer(state, devices) ==
    WithNames(devices,
        Send(Message(IF state THEN "TIMER_ON" ELSE "TIMER_OFF", names(devices)),
             Reply(IF state THEN "timers on" ELSE "timers off")))
set_timer_hold(state, minutes, devices) ==
    WithNames(devices,
        Send(Message(IF state THEN "TIMER_HOLD_ON" ELSE "TIMER_HOLD_OFF",
                     <<minutes, names(devices)>>),
             Reply(IF state THEN "timer hold on" ELSE "timer hold off")))

DeviceOps ==
    {"unlock", "set_frost", "set_target_temperature", "set_diff",
     "rate_of_change", "set_timer", "set_timer_hold"}
\* The temperature, the switching differential, the minutes passed.
Numbers(o) ==
    CASE o = "set_target_temperature" -> {21}
      [] o = "set_diff" -> {-1}
      [] o = "set_timer_hold" -> {30}
      [] OTHER -> {0}
States(o) ==
    IF o \in {"set_frost", "set_timer", "set_timer_hold"} THEN BOOLEAN ELSE {FALSE}
CallDeviceOp ==
    \E o \in DeviceOps, devices \in DeviceArgs :
    \E state \in States(o), n \in Numbers(o) :
        Begin(o, [devices |-> devices, state |-> state, number |-> n],
              CASE o = "unlock" -> unlock(devices)
                [] o = "set_frost" -> set_frost(state, devices)
                [] o = "set_target_temperature" -> set_target_temperature(n, devices)
                [] o = "set_diff" -> set_diff(n, devices)
                [] o = "rate_of_change" -> rate_of_change(devices)
                [] o = "set_timer" -> set_timer(state, devices)
                [] o = "set_timer_hold" -> set_timer_hold(state, n, devices))

\* NeoHub.set_channel, lines 139-154.  int(channel): an int is itself, a
\* str of decimal digits is the number it writes, any other str raises
\* ValueError, None raises TypeError.
Decimals == {<<"11", 11>>}
int_raises(a) ==
    CASE a.type = "int" -> "none"
      [] a.type = "str" ->
            IF \E p \in Decimals : p[1] = a.str THEN "none" ELSE "ValueError"
      [] OTHER -> "TypeError"
int_of(a) ==
    IF a.type = "int" THEN a.int ELSE (CHOOSE p \in Decimals : p[1] = a.str)[2]
Channels ==
    {PyInt(11), PyInt(12), PyInt(25), PyInt(26), PyStr("11"), PyStr("eleven"),
     ArgNone}
set_channel(channel) ==
    LET e == int_raises(channel) IN
    IF e = "ValueError" THEN End(UsageError(e))
    ELSE IF e # "none" THEN End(Raised(Exc(e, e, 0)))
    ELSE Send(Message("SET_CHANNEL", <<int_of(channel)>>),
              Reply("Trying to change channel"))
CallSetChannel ==
    \E channel \in Channels :
        Begin("set_channel", [channel |-> channel], set_channel(channel))

\* NeoHub.set_dst, lines 334-350.
valid_timezones == {"UK", "EU", "NZ"}
Regions == {ArgNone, PyStr("UK"), PyStr("EU"), PyStr("NZ"), PyStr("US")}
set_dst(state, region) ==
    IF ~(region.type = "str" /\ region.str \in valid_timezones)
    THEN End(UsageError("region"))
    ELSE Send(Message(IF state THEN "DST_ON" ELSE "DST_OFF",
                      <<IF region = ArgNone THEN PyInt(0) ELSE region>>),
              Reply(IF state THEN "dst on" ELSE "dst off"))
CallSetDst ==
    \E state \in BOOLEAN, region \in Regions :
        Begin("set_dst", [state |-> state, region |-> region],
              set_dst(state, region))

\* neohubapi/enums.py, lines 9-22: the members of ScheduleFormat and their
\* values.
ScheduleFormat ==
    [member \in {"ZERO", "ONE", "TWO", "SEVEN"} |->
        CASE member = "ZERO"  -> "NONPROGRAMMABLE"
          [] member = "ONE"   -> "24HOURSFIXED"
          [] member = "TWO"   -> "5DAY/2DAY"
          [] member = "SEVEN" -> "7DAY"]
Member(name) == Arg("ScheduleFormat", 0, name)

\* NeoHub.set_format, lines 167-180.
SchedFormats ==
    {Member(name) : name \in DOMAIN ScheduleFormat} \cup {PyInt(4), PyStr("7DAY")}
set_format(sched_format) ==
    IF sched_format.type # "ScheduleFormat" THEN End(UsageError("isinstance"))
    ELSE Send(Message("SET_FORMAT", <<PyStr(ScheduleFormat[sched_format.str])>>),
              Reply("Format was set"))
CallSetFormat ==
    \E sched_format \in SchedFormats :
        Begin("set_format", [sched_format |-> sched_format],
              set_format(sched_format))

\* int_format == n for a decoded JSON value, given as its literal.
NumberLiterals ==
    {<<"0", 0>>, <<"1", 1>>, <<"2", 2>>, <<"3", 3>>, <<"4", 4>>, <<"5", 5>>}
Equals(lit, n) == <<lit, n>> \in NumberLiterals
Gives(v) == [value |-> v, raises |-> "none"]
Throws(e) == [value |-> "None", raises |-> e]

\* Lines 25-37 with 3 for 4 in the last comparison.
schedule_format_int_to_enum_ThreeForSeven(int_format) ==
    IF int_format = "null" THEN Gives("None")
    ELSE IF Equals(int_format, 0) THEN Gives("ScheduleFormat.ZERO")
    ELSE IF Equals(int_format, 1) THEN Gives("ScheduleFormat.ONE")
    ELSE IF Equals(int_format, 2) THEN Gives("ScheduleFormat.TWO")
    ELSE IF Equals(int_format, 3) THEN Gives("ScheduleFormat.SEVEN")
    ELSE Throws("ValueError")

\* Lines 25-37 without the raise of the else branch.
schedule_format_int_to_enum_NoRaise(int_format) ==
    IF int_format = "null" THEN Gives("None")
    ELSE IF Equals(int_format, 0) THEN Gives("ScheduleFormat.ZERO")
    ELSE IF Equals(int_format, 1) THEN Gives("ScheduleFormat.ONE")
    ELSE IF Equals(int_format, 2) THEN Gives("ScheduleFormat.TWO")
    ELSE IF Equals(int_format, 4) THEN Gives("ScheduleFormat.SEVEN")
    ELSE Gives("None")

\* neohubapi/enums.py, lines 25-37.
schedule_format_int_to_enum(int_format) ==
    IF int_format = "null" THEN Gives("None")
    ELSE IF Equals(int_format, 0) THEN Gives("ScheduleFormat.ZERO")
    ELSE IF Equals(int_format, 1) THEN Gives("ScheduleFormat.ONE")
    ELSE IF Equals(int_format, 2) THEN Gives("ScheduleFormat.TWO")
    ELSE IF Equals(int_format, 4) THEN Gives("ScheduleFormat.SEVEN")
    ELSE Throws("ValueError")

\* NeoHub.get_system, lines 98-107.
MsgGetSystem == Message("GET_SYSTEM", <<0>>)
CallGetSystem == Begin("get_system", <<>>, Send(MsgGetSystem, PyNone))
setattr(d, k, v) == {p \in d : p[1] # k} \cup {<<k, v>>}
AttributeError == Raised(Exc("AttributeError", "AttributeError", 0))
get_system(r) ==
    IF r.kind = "raise" THEN r
    ELSE IF ~hasattr(r.value, "FORMAT") THEN AttributeError
    ELSE LET f == schedule_format_int_to_enum(getattr(r.value, "FORMAT")) IN
    IF f.raises # "none" THEN Raised(Exc(f.raises, f.raises, 0))
    ELSE IF ~hasattr(r.value, "ALT_TIMER_FORMAT") THEN AttributeError
    ELSE LET a == schedule_format_int_to_enum(getattr(r.value, "ALT_TIMER_FORMAT")) IN
    IF a.raises # "none" THEN Raised(Exc(a.raises, a.raises, 0))
    ELSE Returned(SimpleNamespace(
            setattr(setattr(r.value.dict, "FORMAT", f.value),
                    "ALT_TIMER_FORMAT", a.value)))

\* neohubapi/neostat.py, lines 19-99: the exception the NeoStat constructor
\* ends with for a device without a member it converts, "none" otherwise.
NeoStatRaises(device) ==
    IF ~hasattr(device, "PIN_NUMBER") THEN "TypeError"
    ELSE IF ~hasattr(device, "PREHEAT_ACTIVE") THEN "TypeError"
    ELSE IF ~hasattr(device, "HOLD_TIME") THEN "AttributeError"
    ELSE IF ~hasattr(device, "DATE") THEN "ValueError"
    ELSE IF ~hasattr(device, "SWITCH_DELAY_LEFT") THEN "TypeError"
    ELSE IF ~hasattr(device, "TIME") THEN "TypeError"
    ELSE "none"
\* NeoStat.__init__, lines 24-76: _simple_attrs, each with a.upper().
simple_attrs ==
    {<<"active_level", "ACTIVE_LEVEL">>,
     <<"active_profile", "ACTIVE_PROFILE">>,
     <<"available_modes", "AVAILABLE_MODES">>, <<"away", "AWAY">>,
     <<"cool_on", "COOL_ON">>, <<"cool_temp", "COOL_TEMP">>,
     <<"current_floor_temperature", "CURRENT_FLOOR_TEMPERATURE">>,
     <<"date", "DATE">>, <<"device_id", "DEVICE_ID">>,
     <<"fan_control", "FAN_CONTROL">>, <<"fan_speed", "FAN_SPEED">>,
     <<"floor_limit", "FLOOR_LIMIT">>, <<"hc_mode", "HC_MODE">>,
     <<"heat_mode", "HEAT_MODE">>, <<"heat_on", "HEAT_ON">>,
     <<"hold_cool", "HOLD_COOL">>, <<"hold_off", "HOLD_OFF">>,
     <<"hold_on", "HOLD_ON">>, <<"hold_temp", "HOLD_TEMP">>,
     <<"hold_time", "HOLD_TIME">>, <<"holiday", "HOLIDAY">>,
     <<"lock", "LOCK">>, <<"low_battery", "LOW_BATTERY">>,
     <<"manual_off", "MANUAL_OFF">>, <<"modelock", "MODELOCK">>,
     <<"modulation_level", "MODULATION_LEVEL">>, <<"offline", "OFFLINE">>,
     <<"pin_number", "PIN_NUMBER">>, <<"preheat_active", "PREHEAT_ACTIVE">>,
     <<"prg_temp", "PRG_TEMP">>, <<"prg_timer", "PRG_TIMER">>,
     <<"standby", "STANDBY">>, <<"switch_delay_left", "SWITCH_DELAY_LEFT">>,
     <<"temporary_set_flag", "TEMPORARY_SET_FLAG">>, <<"time", "TIME">>,
     <<"timer_on", "TIMER_ON">>, <<"window_open", "WINDOW_OPEN">>,
     <<"write_count", "WRITE_COUNT">>}

\* Lines 83-99: int(), Weekday() and the timedeltas of the members the
\* constructor converts, by attribute and literal converted.
Conversions ==
    {<<"pin_number", "\"0000\"", "0">>, <<"preheat_active", "0", "0">>,
     <<"hold_time", "\"0:00\"", "timedelta(minutes=0)">>,
     <<"weekday", "\"monday\"", "Weekday.MONDAY">>,
     <<"switch_delay_left", "\"0:00\"", "timedelta(hours=0, minutes=0)">>,
     <<"time", "\"12:34\"", "timedelta(hours=12, minutes=34)">>}
Convert(a, lit) ==
    IF \E c \in Conversions : c[1] = a /\ c[2] = lit
    THEN (CHOOSE c \in Conversions : c[1] = a /\ c[2] = lit)[3]
    ELSE "None"

\* Line 79: the member floor_limit is assigned from.
floor_limit == "ZONE_NAME"

\* NeoStat.__init__, lines 19-99, for a device every conversion of which
\* succeeds: the attributes of the object and the record it was built from.
NeoStat(device) ==
    LET Get(k) == IF hasattr(device, k) THEN getattr(device, k) ELSE "None"
        simple == [a \in {p[1] : p \in simple_attrs} |->
                    Get((CHOOSE p \in simple_attrs : p[1] = a)[2])]
        renamed ==
            [a \in DOMAIN simple
                    \cup {"name", "target_temperature", "temperature"} |->
                CASE a = "name" -> Get("ZONE_NAME")
                  [] a = "floor_limit" -> Get(floor_limit)
                  [] a = "target_temperature" -> Get("SET_TEMP")
                  [] a = "temperature" -> Get("ACTUAL_TEMP")
                  [] OTHER -> simple[a]]
        converted ==
            [a \in DOMAIN renamed \cup {"weekday"} |->
                CASE a \in {"pin_number", "preheat_active", "hold_time",
                            "switch_delay_left", "time"}
                        -> Convert(a, renamed[a])
                  [] a = "weekday" -> Convert(a, renamed["date"])
                  [] OTHER -> renamed[a]]
    IN  [name |-> converted["name"], data |-> device, attrs |-> converted]

\* The truth value of a decoded JSON value, given as its literal.
bool(lit) == lit \notin {"false", "null", "0", "\"\"", "[]", "{}"}

\* NeoHub.get_live_data, lines 363-389.
MsgGetLiveData == Message("GET_LIVE_DATA", <<0>>)
CallGetLiveData == Begin("get_live_data", <<>>, Send(MsgGetLiveData, PyNone))
delattr(d, k) == {p \in d : p[1] # k}
IsThermostat(device) ==
    hasattr(device, "THERMOSTAT") /\ bool(getattr(device, "THERMOSTAT"))
\* Line 375 testing THERMOSTAT where it should test TIMECLOCK.
IsTimeclock_ByThermostat(device) == IsThermostat(device)
IsTimeclock(device) ==
    hasattr(device, "TIMECLOCK") /\ bool(getattr(device, "TIMECLOCK"))
Tuple(hub_data, devices) ==
    [type |-> "tuple", dict |-> {}, flag |-> FALSE,
     devices |-> devices, hub_data |-> hub_data]
get_live_data(r) ==
    IF r.kind = "raise" THEN r
    ELSE IF ~hasattr(r.value, "devices") THEN AttributeError
    ELSE LET devices == Arrays[getattr(r.value, "devices")]
             hub_data == SimpleNamespace(delattr(r.value.dict, "devices"))
             thermostat_list == SelectSeq(devices, IsThermostat)
             timeclock_list == SelectSeq(devices, IsTimeclock)
             built == thermostat_list \o timeclock_list
             failing == {i \in 1..Len(built) : NeoStatRaises(built[i]) # "none"}
         IN  IF failing # {}
             THEN LET first == CHOOSE i \in failing : \A j \in failing : i <= j
                      e == NeoStatRaises(built[first])
                  IN  Raised(Exc(e, e, 0))
             ELSE Returned(Tuple(hub_data,
                    [thermostats |->
                        [i \in 1..Len(thermostat_list) |-> NeoStat(thermostat_list[i])],
                     timeclocks |->
                        [i \in 1..Len(timeclock_list) |-> NeoStat(timeclock_list[i])]]))

\* datetime.datetime.strptime(x.strip(), "%a %b %d %H:%M:%S %Y") of a
\* decoded JSON value, given as its literal: the timestamp of a date string,
\* white space around it ignored; ValueError for any other string.
Timestamps ==
    {<<DateFri, "2026-07-10 17:00:00">>, <<DateSat, "2026-07-18 09:30:00">>}
strptime(lit) ==
    IF \E p \in Timestamps : p[1] = lit
    THEN Gives((CHOOSE p \in Timestamps : p[1] = lit)[2])
    ELSE Throws("ValueError")

\* NeoHub.get_holiday, lines 223-226: one field of the reply.
DecodeDate(lit) == IF bool(lit) THEN strptime(lit) ELSE Gives("None")

\* NeoHub.get_holiday, lines 214-227.
MsgGetHoliday == Message("GET_HOLIDAY", <<0>>)
CallGetHoliday == Begin("get_holiday", <<>>, Send(MsgGetHoliday, PyNone))
get_holiday(r) ==
    IF r.kind = "raise" THEN r
    ELSE IF ~hasattr(r.value, "start") THEN AttributeError
    ELSE LET start == DecodeDate(getattr(r.value, "start")) IN
    IF start.raises # "none" THEN Raised(Exc(start.raises, start.raises, 0))
    ELSE IF ~hasattr(r.value, "end") THEN AttributeError
    ELSE LET end == DecodeDate(getattr(r.value, "end")) IN
    IF end.raises # "none" THEN Raised(Exc(end.raises, end.raises, 0))
    ELSE Returned(SimpleNamespace(
            setattr(setattr(r.value.dict, "start", start.value),
                    "end", end.value)))

\* Holiday.__init__, src/holiday.py lines 17-30, on the decoded reply (a
\* dict).  start and end are properties without a setter (lines 33-42), so
\* the assignment to self.end of line 26 raises AttributeError; the result
\* is the object with what its properties start, end and ids return.
KeyError == Raised(Exc("KeyError", "KeyError", 0))
in(k, d) == \E p \in d : p[1] = k
item(d, k) == (CHOOSE p \in d : p[1] = k)[2]
Holiday(reply) ==
    IF ~in("start", reply) THEN KeyError
    ELSE LET start == DecodeDate(item(reply, "start")) IN
    IF start.raises # "none" THEN Raised(Exc(start.raises, start.raises, 0))
    ELSE IF ~in("end", reply) THEN KeyError
    ELSE IF bool(item(reply, "end"))
    THEN LET end == strptime(item(reply, "end")) IN
         IF end.raises # "none" THEN Raised(Exc(end.raises, end.raises, 0))
         ELSE AttributeError
    ELSE IF ~in("ids", reply) THEN KeyError
    ELSE Returned(PyValue("Holiday",
                    {<<"start", start.value>>, <<"end", "None">>,
                     <<"ids", item(reply, "ids")>>}, FALSE))

\* Holiday(result) of the get_holiday of src/neohub.py, lines 163-172, for a
\* GET_HOLIDAY reply that _send returned.
CallHoliday ==
    \E t \in HolidayTexts :
        Begin("Holiday", [reply |-> t], End(Holiday(Objects[t])))

\* What the operation o makes of what _send ended with.
Finish(o, r) ==
    CASE o = "get_system" -> get_system(r)
      [] o = "get_holiday" -> get_holiday(r)
      [] o = "get_live_data" -> get_live_data(r)
      [] o = "rate_of_change" ->                              \* line 523
            IF r.kind = "raise" THEN r
            ELSE IF r.value.type = "SimpleNamespace"
            THEN Returned(PyDict(r.value.dict))
            ELSE AttributeError
      [] OTHER -> r

\* _send has ended and the operation returns.
FacadeReturn ==
    /\ op_pc = "send" /\ pc = "done"
    /\ op_pc' = "done" /\ op_result' = Finish(op, result)
    /\ UNCHANGED <<config, op, firmware_version, returns, args, cached, parked,
                   locals, history>>

(***************************************************************************)
(* The methods of a NeoStat, neostat.py lines 114-185.  The object is the  *)
(* argument self of the call; no method assigns to an attribute of it.     *)
(***************************************************************************)
Stats ==
    {NeoStat(DeviceObject(Dev("Kitchen", "true", "absent", TRUE))),
     NeoStat(DeviceObject(Dev("Timer", "absent", "true", TRUE)))}

\* NeoStat.identify, lines 114-123.
identify(self) ==
    Send(Message("IDENTIFY_DEV", <<self.name>>), Reply("Device identifying"))

\* NeoStat.rename, lines 125-134.
rename(self, new_name) ==
    Send(Message("ZONE_TITLE", <<self.name, new_name>>), Reply("zone renamed"))

\* NeoStat.remove, lines 136-149.
remove(self) ==
    Send(Message("REMOVE_ZONE", <<self.name>>), Reply("zone removed"))

\* [self], lines 152-185: the list the methods of the hub are given.
ListOfSelf(self) == List(<<Device(self.name)>>)

\* Lines 114-185: a method of the NeoStat self is called.
ZoneOps ==
    {"identify", "rename", "remove", "set_lock", "unlock", "set_frost",
     "set_target_temperature", "set_diff", "set_timer_hold"}
CallZoneOp ==
    \E self \in Stats, o \in ZoneOps :
    \E state \in (IF o \in {"set_frost", "set_timer_hold"} THEN BOOLEAN
                   ELSE {FALSE}) :
        Begin("NeoStat." \o o,
              [state |-> state, self |-> self, new_name |-> "\"Den\""],
              CASE o = "identify" -> identify(self)
                [] o = "rename" -> rename(self, "\"Den\"")
                [] o = "remove" -> remove(self)
                [] o = "set_lock" -> set_lock(PyInt(1234), ListOfSelf(self))
                [] o = "unlock" -> unlock(ListOfSelf(self))
                [] o = "set_frost" -> set_frost(state, ListOfSelf(self))
                [] o = "set_target_temperature"
                        -> set_target_temperature(21, ListOfSelf(self))
                [] o = "set_diff" -> set_diff(1, ListOfSelf(self))
                [] o = "set_timer_hold"
                        -> set_timer_hold(state, 30, ListOfSelf(self)))

(***************************************************************************)
(* NeoHub.set_datetime, lines 313-321: set_date, then set_time when        *)
(* set_date returned something true.                                       *)
(***************************************************************************)
datetime(year, month, day, hour, minute) ==
    [type |-> "datetime", year |-> year, month |-> month, day |-> day,
     hour |-> hour, minute |-> minute]
DateTimes == {datetime(2026, 7, 10, 17, 0), datetime(2026, 12, 31, 23, 59)}

\* NeoHub.set_date, lines 288-299: the message and the expected reply; a
\* date without a year (None) raises AttributeError before any request.
MsgSetDate(date) == Message("SET_DATE", <<date.year, date.month, date.day>>)
set_date(date) ==
    IF date.type # "datetime" THEN End(AttributeError)
    ELSE Send(MsgSetDate(date), Reply("Date is set"))

\* NeoHub.set_time, lines 301-311.
MsgSetTime(time) == Message("SET_TIME", <<time.hour, time.minute>>)
set_time(time) ==
    IF time.type # "datetime" THEN End(AttributeError)
    ELSE Send(MsgSetTime(time), Reply("time set"))

\* Line 319 without the test: set_time is awaited whatever set_date returned.
TimeAfterDate_Unconditional(r) == TRUE

\* Line 319, `if result:` on what set_date returned.
TimeAfterDate(r) == r = PyTrue

\* Line 318: set_datetime(date_time) awaits set_date(date_time).
CallSetDatetime ==
    \E date_time \in DateTimes \cup {ArgNone} :
        /\ op = "none"
        /\ op' = "set_datetime" /\ args' = [date_time |-> date_time]
        /\ LET plan == set_date(date_time) IN
           IF plan.do = "send"
           THEN /\ op_pc' = "set_date" /\ UNCHANGED op_result
                /\ StartSend(plan.message, plan.expected)
           ELSE /\ op_pc' = "done" /\ op_result' = plan.result
                /\ UNCHANGED <<locals, history>>
        /\ UNCHANGED <<config, firmware_version, returns, cached, parked>>

\* Lines 318-321: set_date has ended; an exception of it leaves
\* set_datetime, a true result is followed by set_time(date_time), any
\* other result is returned.
SetDatetimeDate ==
    /\ op = "set_datetime" /\ op_pc = "set_date" /\ pc = "done"
    /\ returns' = Append(returns, result)
    /\ IF result.kind = "return" /\ TimeAfterDate(result.value)
       THEN LET plan == set_time(args.date_time) IN
            /\ op_pc' = "set_time" /\ UNCHANGED op_result
            /\ StartSend(plan.message, plan.expected)
       ELSE /\ op_pc' = "done" /\ op_result' = result
            /\ UNCHANGED <<locals, history>>
    /\ UNCHANGED <<config, op, firmware_version, args, cached, parked>>

\* Lines 320-321: what set_time ended with is what set_datetime ends with.
SetDatetimeTime ==
    /\ op = "set_datetime" /\ op_pc = "set_time" /\ pc = "done"
    /\ op_pc' = "done" /\ op_result' = result
    /\ returns' = Append(returns, result)
    /\ UNCHANGED <<config, op, firmware_version, args, cached, parked, locals,
                   history>>

(***************************************************************************)
(* Two _send calls on one client, lines 52-85: each call is a coroutine    *)
(* with its own frame; at every await the event loop may run the other.    *)
(***************************************************************************)
\* The frame of the running call.
Running ==
    Frame(message, expected_reply, attempt, last_exception, writer, pc, data,
          used, result, conns, inputs, log, now, sleeps, slept)

\* The frame of a call at line 54, before its first attempt.
Entered(m, e) ==
    IF request_attempts >= 1
    THEN Frame(m, e, 1, NoException, 0, "connect", <<>>, 0, Pending,
               <<>>, <<>>, <<>>, 0, 0, 0)
    ELSE Frame(m, e, 0, NoException, 0, "done", <<>>, 0,
               AfterLoop(e, NoException), <<>>, <<>>, <<>>, 0, 0, 0)

\* The writer kept on the client (self._writer) instead of in a local: the
\* call that runs finds the writer the other call left.
Resume_WriterOnClient(f) ==
    /\ message' = f.message /\ expected_reply' = f.expected_reply
    /\ attempt' = f.attempt /\ last_exception' = f.last_exception
    /\ writer' = writer /\ pc' = f.pc /\ data' = f.data
    /\ used' = f.used /\ result' = f.result
    /\ conns' = f.conns /\ inputs' = f.inputs /\ log' = f.log
    /\ now' = f.now /\ sleeps' = f.sleeps /\ slept' = f.slept

\* The call with frame f runs: message, expected_reply, last_exception,
\* attempt, reader, writer, data and reply are locals of _send and
\* _send_message.
Resume(f) ==
    /\ message' = f.message /\ expected_reply' = f.expected_reply
    /\ attempt' = f.attempt /\ last_exception' = f.last_exception
    /\ writer' = f.writer /\ pc' = f.pc /\ data' = f.data
    /\ used' = f.used /\ result' = f.result
    /\ conns' = f.conns /\ inputs' = f.inputs /\ log' = f.log
    /\ now' = f.now /\ sleeps' = f.sleeps /\ slept' = f.slept

\* A caller awaits _send; a second call of it will follow.
CallTwice ==
    /\ op = "none"
    /\ op' = "twice" /\ op_pc' = "send"
    /\ \E e \in {PyNone, ReplyOk} : StartSend(MsgTest, e)
    /\ UNCHANGED <<config, op_result, firmware_version, returns, args, cached, parked>>

\* _send is called again with the same message and expected_reply, while
\* the first call is suspended at an await or after it has ended.
CallAgain ==
    /\ op = "twice" /\ Len(calls) = 1
    /\ parked' = Running
    /\ Resume(Entered(message, expected_reply))
    /\ calls' = Append(calls, [message |-> message, expected_reply |-> expected_reply])
    /\ UNCHANGED <<config, op, op_pc, op_result, firmware_version, returns, args,
                   cached, frames, leaked>>

\* The running call is suspended at an await and the other call, which has
\* not ended, runs.
Switch ==
    /\ op = "twice" /\ Len(calls) = 2
    /\ parked.pc # "done" /\ pc # "done"
    /\ parked' = Running
    /\ Resume(parked)
    /\ UNCHANGED <<config, op, op_pc, op_result, firmware_version, returns, args,
                   cached, calls, frames, leaked>>

\* The running call has ended; the other call, if it has not, runs on.
CallEnded ==
    /\ op = "twice" /\ Len(calls) = 2 /\ op_pc = "send"
    /\ pc = "done"
    /\ IF parked.pc = "done"
       THEN /\ op_pc' = "done" /\ op_result' = result
            /\ UNCHANGED <<parked, locals, conns, inputs, log, now, sleeps, slept>>
       ELSE /\ parked' = Running /\ Resume(parked)
            /\ UNCHANGED <<op_pc, op_result>>
    /\ UNCHANGED <<config, op, firmware_version, returns, args, cached, calls,
                   frames, leaked>>

Next ==
    \/ CallSend
    \/ CallReset \/ ResetFirmware \/ ResetReturn
    \/ OpenConnection \/ ConnectFails
    \/ Drain \/ ReadUntil \/ ReadIncomplete \/ ConnectionReset
    \/ WaitForTimeout \/ WaitClosed \/ Sleep

Spec == Init /\ [][Next]_vars

(***************************************************************************)
(* The facade operations of a client, on the same engine.                  *)
(***************************************************************************)
FacadeInit ==
    /\ link = "fast"
    /\ request_timeout \in RequestTimeouts
    /\ request_attempts \in 1..MaxFacadeAttempts
    /\ Constructed

Engine ==
    \/ OpenConnection \/ ConnectFails
    \/ Drain \/ ReadUntil \/ ReadIncomplete \/ ConnectionReset
    \/ WaitForTimeout \/ WaitClosed \/ Sleep

\* Tasks that read target_temperature_step of one client.
StepNext ==
    \/ Engine
    \/ \E t \in Tasks : Access(t)
    \/ \E t \in Tasks : AcquireLock(t)
    \/ \E t \in Tasks : StepLoaded(t)

StepSpec == FacadeInit /\ [][StepNext]_vars

\* One facade operation called on a client.
FacadeNext ==
    \/ Engine
    \/ CallSetLock \/ CallDeviceOp
    \/ CallSetChannel \/ CallSetDst \/ CallSetFormat
    \/ CallGetSystem \/ CallGetLiveData
    \/ CallGetHoliday \/ CallHoliday
    \/ CallSetDatetime \/ SetDatetimeDate \/ SetDatetimeTime
    \/ CallZoneOp
    \/ FacadeReturn

FacadeSpec == FacadeInit /\ [][FacadeNext]_vars

\* Two _send calls of one client, one after the other or interleaved.
TwoCallsNext ==
    \/ Engine
    \/ CallTwice \/ CallAgain \/ Switch \/ CallEnded

TwoCallsInit ==
    /\ link = "fast"
    /\ request_timeout = 2
    /\ request_attempts \in 1..MaxFacadeAttempts
    /\ Constructed

TwoCallsSpec == TwoCallsInit /\ [][TwoCallsNext]_vars

(***************************************************************************)
(* Vocabulary of the properties.                                           *)
(***************************************************************************)
Last(s) == s[Len(s)]

\* How an attempt ends when _send_message returned a frame to _send.
ReceivedOutcomes ==
    {"reply", "match", "mismatch", "JSONDecodeError", "UnicodeDecodeError",
     "AttributeError"}

\* How an attempt ends when _send records a failure: connection failure,
\* timeout, JSON decode failure.
FailureOutcomes == {"NeoHubConnectionError", "TimeoutError", "JSONDecodeError"}

\* The last attempt that ended got the frame `data` from the hub.
LastAttemptReceived ==
    log # <<>> /\ Len(log) = attempt /\ Last(log) \in ReceivedOutcomes

\* The frame d is one JSON document followed by the terminating NUL.
FrameIsJson(d) ==
    Len(d) = 2 /\ d[1] \in DOMAIN Objects \cup {TextArray} /\ d[2] = NUL

\* The Python value v is the decoded form of the JSON document t.
Denotes(v, t) ==
    IF t \in DOMAIN Objects
    THEN v.type = "SimpleNamespace" /\ v.dict = Objects[t]
    ELSE v.type = "list"

\* The JSON document t is an object equal to the mapping expected.
EqualsExpected(t, expected) ==
    t \in DOMAIN Objects /\ Objects[t] = expected.dict

\* The connections of the current call that are still open.
OpenConns == {i \in 1..Len(conns) : conns[i] = "open"}

(***************************************************************************)
(* Properties of NeoHub._send.                                             *)
(***************************************************************************)
\* C1: with expected_reply None and request_attempts >= 1, the attempt whose
\* reply is valid JSON ends the call: _send returns the decoded reply (the
\* same mapping, or the list), raises nothing whatever earlier attempts
\* recorded, and opens no further connection.
C1_FirstJsonReplyReturned ==
    (/\ expected_reply = PyNone /\ request_attempts >= 1
     /\ LastAttemptReceived /\ FrameIsJson(data))
        => /\ pc = "done"
           /\ result.kind = "return"
           /\ Denotes(result.value, data[1])
           /\ Len(conns) <= Len(log)

C1_Witness ==
    /\ op = "send" /\ expected_reply = PyNone /\ pc = "done"
    /\ Len(log) = 3 /\ log[1] = "TimeoutError" /\ log[2] = "JSONDecodeError"
    /\ last_exception.type = "JSONDecodeError"
    /\ data = <<TextOk, NUL>>
    /\ result = Returned(SimpleNamespace({<<"message", "\"ok\"">>}))

\* C2: with expected_reply set, the attempt whose decoded reply equals
\* expected_reply ends the call: _send returns True, there is no sleep after
\* that attempt and no further connection.
C2_MatchReturnsTrue ==
    (/\ expected_reply # PyNone
     /\ LastAttemptReceived /\ FrameIsJson(data)
     /\ EqualsExpected(data[1], expected_reply))
        => /\ pc = "done"
           /\ result = Returned(PyTrue)
           /\ sleeps = Len(log) - 1
           /\ Len(conns) <= Len(log)

C2_Witness ==
    /\ op = "send" /\ expected_reply = ReplyOk /\ pc = "done"
    /\ Len(log) = 2 /\ log[1] = "mismatch" /\ log[2] = "match"
    /\ sleeps = 1 /\ result = Returned(PyTrue)

\* C3 (as claimed): with expected_reply set and a hub that answers every
\* request with valid JSON different from expected_reply, the hub receives
\* exactly request_attempts requests and _send returns False.
C3_MismatchExhaustsAttempts ==
    (/\ pc = "done" /\ expected_reply # PyNone /\ request_attempts >= 1
     /\ LastAttemptReceived /\ FrameIsJson(data)
     /\ ~EqualsExpected(data[1], expected_reply)
     /\ \A i \in 1..(Len(log) - 1) : log[i] = "mismatch")
        => /\ result = Returned(PyFalse)
           /\ Len(inputs) = request_attempts

\* C4: with expected_reply None, when each of the request_attempts attempts
\* fails by connection failure, timeout or JSON decode failure, _send raises
\* the failure recorded by the final attempt and does not return False.
C4_LastFailureRaised ==
    (/\ pc = "done" /\ expected_reply = PyNone /\ request_attempts >= 1
     /\ Len(log) = request_attempts
     /\ \A i \in 1..Len(log) : log[i] \in FailureOutcomes)
        => /\ result.kind = "raise"
           /\ result.exc.type = Last(log)
           /\ result.exc.attempt = request_attempts

C4_Witness ==
    /\ op = "send" /\ expected_reply = PyNone /\ pc = "done"
    /\ request_attempts = 3
    /\ log = <<"JSONDecodeError", "NeoHubConnectionError", "TimeoutError">>
    /\ result = Raised(Exc("TimeoutError", "asyncio.TimeoutError", 3))

\* C5: with expected_reply set, when every attempt fails by connection
\* failure, timeout or JSON decode failure, _send returns False after exactly
\* request_attempts attempts and raises nothing.
C5_FailuresReturnFalse ==
    (/\ pc = "done" /\ expected_reply # PyNone
     /\ log # <<>>
     /\ \A i \in 1..Len(log) : log[i] \in FailureOutcomes)
        => /\ result = Returned(PyFalse)
           /\ Len(log) = request_attempts

C5_Witness ==
    /\ op = "send" /\ expected_reply = ReplyOk /\ pc = "done"
    /\ request_attempts = 1 /\ log = <<"JSONDecodeError">>
    /\ Len(inputs) = 1 /\ result = Returned(PyFalse)

\* C6 (as claimed): every connection an attempt opened is closed when the
\* attempt ends, so between attempts and once _send has returned or raised
\* no connection it opened is open, and an attempt opens one connection at
\* most.
C6_ConnectionsClosed ==
    pc \in {"connect", "sleep", "done"}
        => /\ OpenConns = {} /\ leaked = 0
           /\ Len(conns) <= Len(log)

\* C7 (as claimed): every _send call with request_attempts >= 1 ends within
\* request_timeout * request_attempts
\*     + (request_attempts - 1) * request_timeout / 2.
C7_DeadlineBound ==
    (pc = "done" /\ request_attempts >= 1)
        => 2 * now <= 2 * request_timeout * request_attempts
                        + (request_attempts - 1) * request_timeout

\* How an attempt ends when _send goes on to its retry logic.
UnsuccessfulOutcomes == FailureOutcomes \cup {"mismatch"}

\* C8: after every unsuccessful attempt but the last there is exactly one
\* sleep of request_timeout / 2 before the next attempt; there is none after
\* the last attempt nor after a successful one, so a call that exhausts its
\* attempts sleeps request_attempts - 1 times.
C8_DelaysBetweenAttempts ==
    /\ (/\ log # <<>> /\ Len(log) = attempt
        /\ Last(log) \in UnsuccessfulOutcomes
        /\ attempt < request_attempts) => pc = "sleep"
    /\ pc = "sleep" => /\ Len(log) = attempt
                       /\ Last(log) \in UnsuccessfulOutcomes
                       /\ attempt < request_attempts
    /\ attempt >= 1 => sleeps = attempt - 1
    /\ pc = "done" => Len(log) = attempt
    /\ (pc = "done" /\ request_attempts >= 1 /\ Len(log) = request_attempts)
            => sleeps = request_attempts - 1
    /\ 2 * slept = sleeps * request_timeout

C8_Witness ==
    /\ pc = "done" /\ request_attempts = 3 /\ request_timeout = 4
    /\ log = <<"mismatch", "NeoHubConnectionError", "TimeoutError">>
    /\ sleeps = 2 /\ slept = 4

ReportedVersion(r) ==
    IF /\ r.kind = "return" /\ hasattr(r.value, "firmware version")
       /\ IsInt(getattr(r.value, "firmware version"))
    THEN int(getattr(r.value, "firmware version"))
    ELSE -1

\* reset() has issued the RESET request.
SentReset ==
    \/ "RESET" \in frames
    \/ \E i \in 1..Len(calls) : calls[i].message = MsgReset

\* C10: reset() issues RESET only after a FIRMWARE reply that reports a
\* version >= 2027; when the version reported is below 2027 it returns False
\* and never issues RESET; when it is >= 2027 it issues RESET with the
\* expected reply {"Restarting": 1} and returns what that _send returns.
C10_ResetGuardedByFirmware ==
    op = "reset" =>
        /\ calls[1] = [message |-> MsgFirmware, expected_reply |-> PyNone]
        /\ SentReset => Len(returns) >= 1 /\ ReportedVersion(returns[1]) >= 2027
        /\ (op_pc = "done" /\ Len(returns) >= 1
                /\ ReportedVersion(returns[1]) \in 0..2026)
              => op_result = Returned(PyFalse) /\ ~SentReset
        /\ (op_pc = "done" /\ Len(returns) >= 1
                /\ ReportedVersion(returns[1]) >= 2027)
              => /\ Len(calls) = 2
                 /\ calls[2] = [message |-> MsgReset,
                                expected_reply |-> ReplyRestarting]
                 /\ Len(returns) = 2 /\ returns[2] = result
                 /\ op_result = result

C10_Witness ==
    /\ op = "reset" /\ op_pc = "done"
    /\ ReportedVersion(returns[1]) = 2027
    /\ "RESET" \in frames
    /\ data = <<TextRestart, NUL>>
    /\ op_result = Returned(PyTrue)

(***************************************************************************)
(* Properties of NeoHub.target_temperature_step.                           *)
(***************************************************************************)
\* C11: a read of target_temperature_step that queries the hub and gets a
\* FIRMWARE reply reporting version v yields 0.5 when v >= 2135 and 1 when
\* v < 2135, whatever v is.
C11_StepFollowsFirmware ==
    [][\A t \in Tasks :
          (/\ access[t].pc = "load" /\ access'[t].pc = "done"
           /\ ReportedVersion(result) >= 0)
            => access'[t].got =
                 Got(Returned(IF ReportedVersion(result) >= 2135
                              THEN PyNumber("0.5") ELSE PyNumber("1")))]_vars

C11_Witness ==
    /\ op = "target_temperature_step"
    /\ \E t \in Tasks : access[t] = [pc |-> "done", got |-> Got(Returned(PyNumber("0.5")))]
    /\ \E t \in Tasks : access[t].pc = "done" /\ access[t].got.kind = "raise"
    /\ firmware_version = 2135 /\ Len(calls) = 2

\* C12: once a read of target_temperature_step has completed with a value,
\* that value stays cached unchanged, no further _send call is made and no
\* further request reaches the hub, and every read that completes from
\* then on, in whichever task, yields the cached value.
C12_StepCachedOnce ==
    [][cache # PyNone =>
          /\ cache' = cache
          /\ calls' = calls /\ frames' = frames /\ pc' = pc
          /\ \A t \in Tasks :
                (access'[t] # access[t] /\ access'[t].pc = "done")
                    => access'[t].got = Got(Returned(cache))]_vars

C12_Witness ==
    /\ op = "target_temperature_step" /\ cache = PyNumber("1")
    /\ accesses = 3 /\ Len(calls) = 1
    /\ \A t \in Tasks : access[t] = [pc |-> "done", got |-> Got(Returned(cache))]

(***************************************************************************)
(* Properties of the device-targeted operations.                           *)
(***************************************************************************)
\* The pin is an integer in 0..9999.
InRange(pin) == pin.type = "int" /\ pin.int >= 0 /\ pin.int <= 9999

\* The devices argument is iterable and each of its elements has a name.
AllNamed(devices) ==
    devices.iterable /\ \A i \in 1..Len(devices.items) : devices.items[i].has_name

\* The sequence n lists the names of the elements of devices in their order.
ListsNames(n, devices) ==
    /\ Len(n) = Len(devices.items)
    /\ \A i \in 1..Len(n) : n[i] = devices.items[i].name

\* The list of names a message carries.
NamesIn(m) ==
    IF m.verb \in {"LOCK", "SET_TEMP", "SET_DIFF", "TIMER_HOLD_ON", "TIMER_HOLD_OFF"}
    THEN m.payload[2]
    ELSE m.payload

\* Every request the hub received from the current call is the message of
\* the call followed by NUL and CR.
HubReceivedMessage ==
    \A i \in 1..Len(inputs) : inputs[i] = [doc |-> message, tail |-> <<NUL, CR>>]

\* C13: set_lock with an integer pin in 0..9999 (and devices that all have
\* names) sends a LOCK message whose first element is four decimal digits,
\* most significant first, with d1*1000 + d2*100 + d3*10 + d4 = pin, and
\* whose second element lists the devices' names in the given order.
C13_LockPinDigits ==
    (op = "set_lock" /\ InRange(args.pin) /\ AllNamed(args.devices))
        => /\ Len(calls) = 1 /\ message.verb = "LOCK"
           /\ Len(message.payload) = 2
           /\ LET d == message.payload[1] IN
                 /\ Len(d) = 4 /\ \A i \in 1..4 : d[i] \in 0..9
                 /\ d[1] * 1000 + d[2] * 100 + d[3] * 10 + d[4] = args.pin.int
           /\ ListsNames(message.payload[2], args.devices)
           /\ HubReceivedMessage

C13_Witness ==
    /\ op = "set_lock" /\ op_pc = "done" /\ args.pin = PyInt(7)
    /\ message = Message("LOCK", <<(<<0, 0, 0, 7>>), (<<"Lounge", "Kitchen">>)>>)
    /\ Len(inputs) = 1 /\ op_result = Returned(PyTrue)

\* C14 (as claimed): set_lock with an integer pin below 0 or above 9999 ends
\* with a usage error, not with a boolean, and opens no connection.
C14_OutOfRangePinRejected ==
    (/\ op = "set_lock" /\ args.pin.type = "int"
     /\ (args.pin.int < 0 \/ args.pin.int > 9999))
        => /\ op_pc = "done" /\ op_result.kind = "raise"
           /\ op_result.exc.type = "NeoHubUsageError"
           /\ calls = <<>> /\ conns = <<>>

\* C17: a device-targeted operation (set_lock with a pin in range, unlock,
\* set_frost, set_target_temperature, set_diff, rate_of_change, set_timer,
\* set_timer_hold) whose devices argument cannot be iterated or has an
\* element without a name raises NeoHubUsageError with no _send call, no
\* connection and no request, whatever request_attempts is; otherwise it
\* makes one _send call whose message lists the names in the given order.
C17_DeviceNames ==
    (/\ op \in DeviceOps \cup {"set_lock"}
     /\ op = "set_lock" => InRange(args.pin))
        => IF AllNamed(args.devices)
           THEN /\ Len(calls) = 1
                /\ ListsNames(NamesIn(message), args.devices)
                /\ HubReceivedMessage
           ELSE /\ op_pc = "done" /\ op_result.kind = "raise"
                /\ op_result.exc.type = "NeoHubUsageError"
                /\ calls = <<>> /\ conns = <<>> /\ frames = {} /\ leaked = 0

C17_Witness ==
    /\ op = "set_timer_hold" /\ request_attempts = 2
    /\ args.devices = List(<<Device("Kitchen"), Nameless>>)
    /\ op_result = UsageError("AttributeError")
    /\ calls = <<>>

(***************************************************************************)
(* Properties of NeoHub.set_channel and NeoHub.set_dst.                    *)
(***************************************************************************)
\* The channel coerces to an integer that is a documented ZigBee channel.
AllowedChannel(channel) ==
    /\ int_raises(channel) = "none"
    /\ int_of(channel) \in {11, 14, 15, 19, 20, 24, 25}

\* The operation ended in a usage error without a _send call, a connection
\* or a request.
RejectedBeforeSend ==
    /\ op_pc = "done" /\ op_result.kind = "raise"
    /\ op_result.exc.type = "NeoHubUsageError"
    /\ calls = <<>> /\ conns = <<>> /\ frames = {}

\* C15 (as claimed): set_channel sends a SET_CHANNEL frame only when the
\* channel coerces to an integer in {11, 14, 15, 19, 20, 24, 25}; for any
\* other value it ends in a usage error and opens no connection.
C15_ChannelValidated ==
    op = "set_channel"
        => IF AllowedChannel(args.channel)
           THEN /\ Len(calls) = 1
                /\ message = Message("SET_CHANNEL", <<int_of(args.channel)>>)
           ELSE RejectedBeforeSend

\* C16 (as claimed): set_dst with region None sends DST_ON (state true) or
\* DST_OFF (state false) with payload 0 and returns what _send returns;
\* with region UK, EU or NZ it sends the frame with that region as payload;
\* with any other region it ends in a usage error before anything is sent.
C16_DstRegion ==
    op = "set_dst"
        => LET verb == IF args.state THEN "DST_ON" ELSE "DST_OFF" IN
           IF args.region = ArgNone
           THEN /\ Len(calls) = 1 /\ message = Message(verb, <<PyInt(0)>>)
                /\ op_pc = "done" => op_result = result
           ELSE IF args.region.str \in {"UK", "EU", "NZ"}
           THEN /\ Len(calls) = 1 /\ message = Message(verb, <<args.region>>)
                /\ op_pc = "done" => op_result = result
           ELSE RejectedBeforeSend

(***************************************************************************)
(* Properties of ScheduleFormat, NeoHub.set_format and NeoHub.get_system.  *)
(***************************************************************************)
\* The integer code of each schedule format: 0 non-programmable, 1 fixed
\* 24 hours, 2 five-day/two-day, 4 seven-day.
FormatCode ==
    [member \in {"ZERO", "ONE", "TWO", "SEVEN"} |->
        CASE member = "ZERO" -> "0" [] member = "ONE" -> "1"
          [] member = "TWO"  -> "2" [] member = "SEVEN" -> "4"]

\* The JSON literal of a value of a request.
WireLiteral(a) ==
    IF a.type = "str" THEN "\"" \o a.str \o "\""
    ELSE (CHOOSE p \in NumberLiterals : p[2] = a.int)[1]

\* set_format was called with a member of ScheduleFormat and made its _send
\* call.
FormatSent ==
    /\ op = "set_format" /\ args.sched_format.type = "ScheduleFormat"
    /\ Len(calls) = 1

\* C18 (as claimed): the value set_format puts on the wire for a format X is
\* X's integer code, and decoding that value gives X back.
C18_FormatRoundTrip ==
    FormatSent
        => LET X == args.sched_format.str
               wire == message.payload[1]
           IN  /\ WireLiteral(wire) = FormatCode[X]
               /\ schedule_format_int_to_enum(WireLiteral(wire))
                    = Gives("ScheduleFormat." \o X)

\* C18 (amended): decoding the integer code of a format X gives X back and
\* no other code decodes to X; what set_format puts on the wire for X is
\* X's string value, which does not decode.
C18_FormatCodes ==
    FormatSent
        => LET X == args.sched_format.str
               wire == message.payload[1]
           IN  /\ schedule_format_int_to_enum(FormatCode[X])
                    = Gives("ScheduleFormat." \o X)
               /\ \A p \in NumberLiterals :
                    schedule_format_int_to_enum(p[1])
                        = Gives("ScheduleFormat." \o X) => p[1] = FormatCode[X]
               /\ message.verb = "SET_FORMAT"
               /\ wire = PyStr(CASE X = "ZERO"  -> "NONPROGRAMMABLE"
                                 [] X = "ONE"   -> "24HOURSFIXED"
                                 [] X = "TWO"   -> "5DAY/2DAY"
                                 [] X = "SEVEN" -> "7DAY")
               /\ schedule_format_int_to_enum(WireLiteral(wire))
                    = Throws("ValueError")

C18_Witness ==
    /\ op = "set_format" /\ args.sched_format = Member("SEVEN")
    /\ message = Message("SET_FORMAT", <<PyStr("7DAY")>>)
    /\ op_pc = "done" /\ op_result = Returned(PyTrue)

\* The literal of a field of a GET_SYSTEM reply, "absent" without the field.
FieldLiteral(v, k) == IF hasattr(v, k) THEN getattr(v, k) ELSE "absent"
Codes == {"0", "1", "2", "4"}
OtherInteger(lit) == lit \in {p[1] : p \in NumberLiterals} \ Codes
UnrecognizedFormat ==
    /\ op_result.kind = "raise" /\ op_result.exc.type = "ValueError"

\* get_system ended after the hub answered its GET_SYSTEM request with an
\* object.
SystemAnswered ==
    /\ op = "get_system" /\ op_pc = "done"
    /\ result.kind = "return" /\ result.value.type = "SimpleNamespace"

\* The answered request was the last one: one _send call, ended by the
\* reply, and one request when the first attempt was answered.
NotRetried ==
    /\ Len(calls) = 1 /\ pc = "done" /\ message = MsgGetSystem
    /\ Last(log) = "reply" /\ Len(inputs) <= Len(log)
    /\ Len(log) = 1 => Len(inputs) = 1

\* C19 (as claimed): when FORMAT or ALT_TIMER_FORMAT of the reply is not
\* one of the codes 0, 1, 2, 4 (3, another integer, absent or null),
\* get_system raises the unrecognized-format error, and the request is not
\* retried.
C19_UnrecognizedFormatRaises ==
    (/\ SystemAnswered
     /\ \/ FieldLiteral(result.value, "FORMAT") \notin Codes
        \/ FieldLiteral(result.value, "ALT_TIMER_FORMAT") \notin Codes)
        => UnrecognizedFormat /\ NotRetried

\* C19 (amended): when the reply has both fields and one of them is an
\* integer other than 0, 1, 2, 4, get_system raises the unrecognized-format
\* error; a null field is passed on as None; a reply without FORMAT, or with
\* a recognized or null FORMAT and without ALT_TIMER_FORMAT, raises
\* AttributeError; in every case the request is not retried.
C19_FormatDecoding ==
    SystemAnswered
        => LET f == FieldLiteral(result.value, "FORMAT")
               a == FieldLiteral(result.value, "ALT_TIMER_FORMAT")
               Field(k) == getattr(op_result.value, k)
               Decoded(lit) ==
                    CASE lit = "null" -> "None" [] lit = "0" -> "ScheduleFormat.ZERO"
                      [] lit = "1" -> "ScheduleFormat.ONE"
                      [] lit = "2" -> "ScheduleFormat.TWO"
                      [] lit = "4" -> "ScheduleFormat.SEVEN"
           IN  /\ NotRetried
               /\ (f # "absent" /\ a # "absent" /\ (OtherInteger(f) \/ OtherInteger(a)))
                    => UnrecognizedFormat
               /\ (f = "absent" \/ (f \in Codes \cup {"null"} /\ a = "absent"))
                    => op_result = AttributeError
               /\ (f \in Codes \cup {"null"} /\ a \in Codes \cup {"null"})
                    => /\ op_result.kind = "return"
                       /\ Field("FORMAT") = Decoded(f)
                       /\ Field("ALT_TIMER_FORMAT") = Decoded(a)

C19_Witness ==
    /\ SystemAnswered /\ request_attempts = 2
    /\ FieldLiteral(result.value, "FORMAT") = "null"
    /\ FieldLiteral(result.value, "ALT_TIMER_FORMAT") = "3"
    /\ UnrecognizedFormat /\ Len(log) = 1 /\ Len(inputs) = 1

(***************************************************************************)
(* Properties of NeoHub.get_live_data.                                     *)
(***************************************************************************)
\* The flag k of the device is present and true.
FlagSet(device, k) == <<k, "true">> \in device.dict

\* The device has every member the NeoStat constructor converts.
Complete(device) == StatMembers \subseteq device.dict

\* get_live_data ended after the hub answered its request with an object
\* that has a devices list, in which every device with a set flag is
\* complete.
LiveAnswered ==
    /\ op = "get_live_data" /\ op_pc = "done"
    /\ result.kind = "return" /\ hasattr(result.value, "devices")
    /\ LET ds == Arrays[getattr(result.value, "devices")]
       IN  \A i \in 1..Len(ds) :
                FlagSet(ds[i], "THERMOSTAT") \/ FlagSet(ds[i], "TIMECLOCK")
                    => Complete(ds[i])

\* C20: get_live_data returns, under 'thermostats', the devices of the reply
\* whose THERMOSTAT flag is present and true, in reply order, and under
\* 'timeclocks' those whose TIMECLOCK flag is present and true; a device
\* with an absent flag counts as one with a false flag and causes no error,
\* a device with neither flag is in neither list, and the returned hub
\* record has every member of the reply except devices.
C20_LiveDataPartition ==
    LiveAnswered
        => LET ds == Arrays[getattr(result.value, "devices")]
               Thermostat(d) == FlagSet(d, "THERMOSTAT")
               Timeclock(d) == FlagSet(d, "TIMECLOCK")
               Data(stats) == [i \in 1..Len(stats) |-> stats[i].data]
               got == op_result.value
           IN  /\ op_result.kind = "return"
               /\ Data(got.devices.thermostats) = SelectSeq(ds, Thermostat)
               /\ Data(got.devices.timeclocks) = SelectSeq(ds, Timeclock)
               /\ \A i \in 1..Len(ds) :
                    (~Thermostat(ds[i]) /\ ~Timeclock(ds[i]))
                        => /\ \A j \in DOMAIN got.devices.thermostats :
                                got.devices.thermostats[j].data # ds[i]
                           /\ \A j \in DOMAIN got.devices.timeclocks :
                                got.devices.timeclocks[j].data # ds[i]
               /\ ~hasattr(got.hub_data, "devices")
               /\ got.hub_data.dict
                    = {p \in result.value.dict : p[1] # "devices"}

C20_Witness ==
    /\ LiveAnswered /\ op_result.kind = "return"
    /\ LET Zones(stats) == [i \in 1..Len(stats) |-> stats[i].name]
           got == op_result.value.devices
       IN  /\ Zones(got.thermostats) = <<"\"Kitchen\"", "\"Combo\"", "\"Lounge\"">>
           /\ Zones(got.timeclocks) = <<"\"Timer\"", "\"Combo\"">>
    /\ Len(Arrays[getattr(result.value, "devices")]) = 6

(***************************************************************************)
(* Properties of NeoHub._send_message and of the attempts of NeoHub._send. *)
(***************************************************************************)
\* The frame d ends with a NUL and has no other.
EndsAtFirstNul(d) ==
    /\ d # <<>> /\ Last(d) = NUL
    /\ \A i \in 1..(Len(d) - 1) : d[i] # NUL

\* C23: what an attempt writes is the JSON encoding of the message, then one
\* NUL, then one CR, and it is written before anything is read; the reply is
\* read up to its first NUL, and what is decoded is the reply without that
\* NUL and with nothing else removed.
C23_WireFraming ==
    [][/\ (inputs' # inputs /\ inputs' # <<>>)
            => /\ pc = "drain" /\ data = <<>>
               /\ inputs' = Append(inputs, [doc |-> message, tail |-> <<NUL, CR>>])
       /\ (pc = "readuntil" /\ pc' = "wait_closed")
            => /\ inputs # <<>> /\ Last(inputs).doc = message
               /\ inputs' = inputs
               /\ data = <<>> /\ EndsAtFirstNul(data')
       /\ (pc = "wait_closed" /\ pc' # pc /\ used' = used)
            => LET body == SubSeq(data, 1, Len(data) - 1) IN
               /\ Last(log') = "UnicodeDecodeError" <=> ~IsUtf8(body)
               /\ Last(log') = "JSONDecodeError"
                    <=> (IsUtf8(body) /\ json_loads(body) = DecodeFailure)
               /\ Last(log') = "reply" => result'.value = json_loads(body)
      ]_vars

C23_Witness ==
    /\ op = "send" /\ pc = "done" /\ attempt = 2
    /\ inputs = <<EncodedMessage(MsgTest), EncodedMessage(MsgTest)>>
    /\ data = <<TextOk, NUL>> /\ Last(log) = "reply"
    /\ result = Returned(SimpleNamespace({<<"message", "\"ok\"">>}))

\* How an attempt ends when the transport fails: the connection cannot be
\* opened, the deadline expires, or the hub closes or resets the connection
\* before a reply terminated by NUL has arrived.
TransportOutcomes ==
    {"NeoHubConnectionError", "TimeoutError", "OSError", "UnboundLocalError",
     "IncompleteReadError", "ConnectionResetError"}

\* C24 (as claimed): an attempt that ends in a transport failure is a failed
\* attempt: _send goes on to the next attempt while there is one and ends
\* only with the last attempt, returning False when expected_reply is set.
C24_TransportFailuresRetried ==
    (/\ request_attempts >= 1 /\ log # <<>> /\ Len(log) = attempt
     /\ Last(log) \in TransportOutcomes)
        => IF attempt < request_attempts
           THEN pc = "sleep"
           ELSE /\ pc = "done"
                /\ expected_reply # PyNone => result = Returned(PyFalse)

\* Within one _send call: an attempt is started only as the successor of an
\* attempt that ended without a result, and none is started, and no
\* connection opened, once _send has returned or raised.
AttemptsInOrder ==
    /\ (attempt' # attempt /\ calls' = calls)
            => /\ attempt >= 1 /\ attempt' = attempt + 1
               /\ Len(log) = attempt /\ Last(log) \in UnsuccessfulOutcomes
               /\ result = Pending /\ result' = Pending
    /\ (Len(conns') # Len(conns) /\ calls' = calls)
            => /\ pc = "connect" /\ Len(conns') = Len(conns) + 1
               /\ Len(log) = attempt - 1
    /\ (pc = "done" /\ calls' = calls)
            => /\ pc' = "done" /\ attempt' = attempt /\ result' = result
               /\ Len(conns') = Len(conns)

\* C26 (as claimed): a _send call with request_attempts >= 1 opens at least
\* one and at most request_attempts connections; attempt k+1 starts only
\* after attempt k ended without a result; no attempt starts after _send
\* has returned or raised.
C26_ConnectionsOpened ==
    [][/\ AttemptsInOrder
       /\ (request_attempts >= 1 /\ pc' = "done")
            => (1 <= Len(conns') /\ Len(conns') <= request_attempts)
      ]_vars

\* C26 (amended): a _send call with request_attempts >= 1 makes at least one
\* and at most request_attempts attempts, and each attempt opens one
\* connection at most, so at most request_attempts connections are opened
\* and none when no attempt can connect; attempt k+1 starts only after
\* attempt k ended without a result; no attempt starts after _send has
\* returned or raised.
C26_AttemptsInOrder ==
    [][/\ AttemptsInOrder
       /\ Len(conns') <= attempt' /\ attempt' <= request_attempts
       /\ (request_attempts >= 1 /\ pc' = "done")
            => /\ 1 <= attempt' /\ Len(log') = attempt'
               /\ Len(conns') <= request_attempts
      ]_vars

C26_Witness ==
    /\ op = "send" /\ pc = "done" /\ request_attempts = 3
    /\ log = <<"NeoHubConnectionError", "TimeoutError", "NeoHubConnectionError">>
    /\ Len(conns) = 1 /\ attempt = 3

(***************************************************************************)
(* Properties of two _send calls on one client.                            *)
(***************************************************************************)
\* The call with frame c, once ended, has the result that its own
\* expected_reply, the attempt configuration, the ends of its own attempts
\* and the last frame it read determine; an attempt of it is recorded as
\* timed out only on a connection the call itself opened.
Determined(c) ==
    (c.pc = "done" /\ c.log # <<>>)
        => LET last == Last(c.log)
               body == SubSeq(c.data, 1, Len(c.data) - 1)
           IN  /\ last = "reply"
                    => /\ c.expected_reply = PyNone
                       /\ c.result = Returned(json_loads(body))
               /\ last = "match" => c.result = Returned(PyTrue)
               /\ last \in UnsuccessfulOutcomes
                    => /\ Len(c.log) = request_attempts
                       /\ IF c.expected_reply # PyNone
                          THEN c.result = Returned(PyFalse)
                          ELSE /\ c.result.kind = "raise"
                               /\ c.result.exc.type = last
                               /\ c.result.exc.attempt = Len(c.log)
               /\ last \notin UnsuccessfulOutcomes \cup {"reply", "match"}
                    => /\ c.result.kind = "raise"
                       /\ c.result.exc.type = last
                       /\ c.result.exc.attempt = Len(c.log)
               /\ (\E i \in 1..Len(c.log) : c.log[i] = "TimeoutError")
                    => c.conns # <<>>

\* Two ended calls to which the hub answered every time, whose attempts
\* ended alike and which read the same last frame, have the same result.
Identical(c, d) ==
    (/\ c.pc = "done" /\ d.pc = "done"
     /\ c.message = d.message /\ c.expected_reply = d.expected_reply
     /\ c.log = d.log /\ c.data = d.data
     /\ \A i \in 1..Len(c.log) : c.log[i] \in ReceivedOutcomes)
        => c.result = d.result

\* C22: _send calls share no mutable state.  Of two calls with the same
\* message and expected_reply on one client, made one after the other or
\* interleaved at their awaits, each has the result its own attempts
\* determine, they have the same result when the hub answered them alike,
\* and no step of _send changes the configuration of the client.
C22_CallsIndependent ==
    [][/\ config' = config
       /\ op' = "twice"
            => /\ Determined(Running)' /\ Determined(parked)'
               /\ Identical(Running, parked)'
      ]_vars

C22_Witness ==
    /\ op = "twice" /\ op_pc = "done" /\ request_attempts = 2
    /\ log = <<"TimeoutError", "reply">>
    /\ parked.pc = "done" /\ parked.log = <<"JSONDecodeError", "reply">>
    /\ parked.result = result
    /\ result = Returned(SimpleNamespace({<<"message", "\"ok\"">>}))

(***************************************************************************)
(* Properties of NeoHub.get_holiday and of Holiday.                        *)
(***************************************************************************)
\* The mapping a GET_HOLIDAY reply was decoded to, when get_holiday of
\* either client has ended on it.
HolidayReply ==
    IF op = "Holiday" THEN Objects[args.reply] ELSE result.value.dict
HolidayDecodedFrom ==
    /\ op_pc = "done"
    /\ \/ op = "Holiday"
       \/ /\ op = "get_holiday" /\ result.kind = "return"
          /\ hasattr(result.value, "start") /\ hasattr(result.value, "end")

\* What a field of the reply is to be decoded to: None for null and for the
\* empty string, the timestamp it denotes for a date.
HolidayValue(lit) ==
    CASE lit \in {"null", "\"\""} -> "None"
      [] lit = DateFri -> "2026-07-10 17:00:00"
      [] lit = DateSat -> "2026-07-18 09:30:00"

\* C21 (as claimed): get_holiday returns a result on which start and end
\* are both readable, each decoded by itself: None for an empty or null
\* field, the timestamp it denotes for a present one.
C21_HolidayDecoded ==
    HolidayDecodedFrom
        => /\ op_result.kind = "return"
           /\ item(op_result.value.dict, "start")
                = HolidayValue(item(HolidayReply, "start"))
           /\ item(op_result.value.dict, "end")
                = HolidayValue(item(HolidayReply, "end"))

(***************************************************************************)
(* Properties of NeoHub.set_datetime.                                      *)
(***************************************************************************)
\* C27: set_datetime(date_time) first requests SET_DATE with the year, month
\* and day of date_time; SET_TIME, with the hour and minute of the same
\* date_time, is requested only after set_date returned True; when set_date
\* returned False, set_datetime returns False and the hub never receives
\* SET_TIME; when it returned True, set_datetime ends with what set_time
\* ended with.
C27_SetDatetimeTwoPhase ==
    op = "set_datetime" =>
        /\ Len(calls) <= 2
        /\ Len(calls) >= 1 => calls[1].message = MsgSetDate(args.date_time)
        /\ Len(calls) = 2 =>
              /\ calls[2].message = MsgSetTime(args.date_time)
              /\ Len(returns) >= 1 /\ returns[1] = Returned(PyTrue)
        /\ "SET_TIME" \in frames =>
              /\ "SET_DATE" \in frames
              /\ Len(returns) >= 1 /\ returns[1] = Returned(PyTrue)
        /\ (op_pc = "done" /\ Len(returns) >= 1
                /\ returns[1] = Returned(PyFalse))
              => /\ op_result = Returned(PyFalse)
                 /\ Len(calls) = 1 /\ "SET_TIME" \notin frames
        /\ (op_pc = "done" /\ Len(returns) >= 1
                /\ returns[1] = Returned(PyTrue))
              => Len(returns) = 2 /\ op_result = returns[2]

\* set_date returned True, the hub received both requests and set_time
\* failed: set_datetime returned False.
C27_Witness ==
    /\ op = "set_datetime" /\ op_pc = "done"
    /\ Len(returns) = 2 /\ returns[1] = Returned(PyTrue)
    /\ frames = {"SET_DATE", "SET_TIME"}
    /\ op_result = Returned(PyFalse)

(***************************************************************************)
(* Properties of NeoStat.__init__.                                         *)
(***************************************************************************)
\* The member k of a device record, None when the record has none.
Member_of(device, k) ==
    IF hasattr(device, k) THEN getattr(device, k) ELSE "None"

\* The attributes the constructor stores as they are in the record.
Unconverted ==
    {p \in simple_attrs :
        p[1] \notin {"pin_number", "preheat_active", "hold_time",
                     "switch_delay_left", "time"}}

\* The NeoStat objects get_live_data returned.
StatsReturned ==
    IF op = "get_live_data" /\ op_pc = "done" /\ op_result.kind = "return"
    THEN {op_result.value.devices.thermostats[i] :
                i \in DOMAIN op_result.value.devices.thermostats}
            \cup {op_result.value.devices.timeclocks[i] :
                    i \in DOMAIN op_result.value.devices.timeclocks}
    ELSE {}

\* C28 (as claimed): in every NeoStat built from a device record, name is
\* the record's ZONE_NAME, target_temperature its SET_TEMP, temperature its
\* ACTUAL_TEMP, and every other attribute stored unconverted, floor_limit
\* among them, is the record's member of the upper-cased name.
C28_FieldsCarryKeys ==
    \A stat \in StatsReturned :
        /\ stat.attrs["name"] = Member_of(stat.data, "ZONE_NAME")
        /\ stat.attrs["target_temperature"] = Member_of(stat.data, "SET_TEMP")
        /\ stat.attrs["temperature"] = Member_of(stat.data, "ACTUAL_TEMP")
        /\ \A p \in Unconverted : stat.attrs[p[1]] = Member_of(stat.data, p[2])

(***************************************************************************)
(* Properties of the methods of a NeoStat.                                 *)
(***************************************************************************)
ZoneOpNames == {"NeoStat." \o o : o \in ZoneOps}

\* The step in which rename returns True.
RenameSucceeds ==
    /\ op = "NeoStat.rename" /\ op_pc # "done"
    /\ op_pc' = "done" /\ op_result' = Returned(PyTrue)

\* The NeoStat with another name.
Renamed(self, new_name) ==
    [self EXCEPT !.name = new_name, !.attrs["name"] = new_name]

\* A step of a method of a NeoStat leaves the object as it was, except that
\* the step in which rename returns True sets its name to new_name.
SelfKeptOrRenamed ==
    op \in ZoneOpNames
        => (args.self)' = IF RenameSucceeds
                          THEN Renamed(args.self, args.new_name)
                          ELSE args.self

\* C25 (as claimed): no step of a method of a NeoStat changes the object,
\* whatever the method ends with, except that the step in which rename
\* returns True sets its name to new_name.
C25_SnapshotFrame == [][SelfKeptOrRenamed]_vars

====
